---- MODULE Spec2Model ----
(***************************************************************************)
(* SmartClassroom: the environmental forecasting / comfort pipeline of     *)
(* app.py and the IoT reading buffer of camera_system/iot_sensor.py.       *)
(*                                                                         *)
(* Real quantities (sensor values, model outputs, scores) are fixed-point  *)
(* integers in hundredths: 23.5 degrees C is 2350.  None is -1 (the        *)
(* parser's regular expressions admit no sign, so no reading is negative). *)
(* The rule-based score, which the code accumulates in steps of 0.5, is    *)
(* kept in halves: score 4.5 is 9.  A result that a call has not produced  *)
(* yet is the empty sequence, a produced one a one-element sequence.       *)
(***************************************************************************)
EXTENDS Integers, Sequences, FiniteSets, TLC

None == -1

(***************************************************************************)
(* app.py: classify_comfort                                                *)
(***************************************************************************)
temperature_score(temperature) ==
    IF 2200 <= temperature /\ temperature <= 2400 THEN 2
    ELSE IF 2100 <= temperature /\ temperature <= 2500 THEN 1
    ELSE 0

humidity_score(humidity) ==
    IF 3000 <= humidity /\ humidity <= 5000 THEN 2
    ELSE IF 2500 <= humidity /\ humidity <= 5500 THEN 1
    ELSE 0

\* gas_score with its first comparison inclusive
gas_score_inclusive(gas) ==
    IF gas <= 80000 THEN 2
    ELSE IF gas < 100000 THEN 1
    ELSE 0

gas_score(gas) ==
    IF gas < 80000 THEN 2
    ELSE IF gas < 100000 THEN 1
    ELSE 0

light_score(light) ==
    IF 15000 <= light /\ light <= 25000 THEN 2
    ELSE IF 10000 <= light /\ light <= 30000 THEN 1
    ELSE 0

sound_score(sound) ==
    IF 3500 <= sound /\ sound <= 6000 THEN 2
    ELSE IF sound <= 7000 THEN 1
    ELSE 0

\* comfort_class with the Acceptable threshold exclusive
comfort_class_exclusive(score) ==
    IF score >= 9 THEN 3
    ELSE IF score > 6 THEN 2
    ELSE IF score >= 3 THEN 1
    ELSE 0

comfort_class(score) ==
    IF score >= 9 THEN 3
    ELSE IF score >= 6 THEN 2
    ELSE IF score >= 3 THEN 1
    ELSE 0

classify_comfort(temperature, humidity, gas, light, sound) ==
    comfort_class(temperature_score(temperature) + humidity_score(humidity)
                  + gas_score(gas) + light_score(light) + sound_score(sound))

(***************************************************************************)
(* camera_system/iot_sensor.py: the pure helpers of IoTSensorReader        *)
(***************************************************************************)
Sensors == {"temperature", "humidity", "light", "sound", "gas"}

RawKey ==
    [temperature |-> "raw_temperature", humidity |-> "raw_humidity",
     light |-> "raw_light", sound |-> "raw_sound", gas |-> "raw_gas"]

required_sensors == {RawKey[s] : s \in Sensors}

EmotionKeys == {"happy", "surprise", "neutral", "sad", "angry", "disgust", "fear"}

\* Python's dict.get(key, default), item assignment and del
Get(d, key, default) == IF key \in DOMAIN d THEN d[key] ELSE default

Put(d, key, v) == [k \in DOMAIN d \cup {key} |-> IF k = key THEN v ELSE d[k]]

Del(d, keys) == [k \in DOMAIN d \ keys |-> d[k]]

\* round(): the integer nearest to a / b, ties to the even one (0 <= a, 0 < b)
RoundDiv(a, b) ==
    LET q == a \div b
        r == a % b
    IN  IF 2 * r < b THEN q
        ELSE IF 2 * r > b THEN q + 1
        ELSE IF q % 2 = 0 THEN q ELSE q + 1

\* round(x, 1) of a value in hundredths
Round1(x) == RoundDiv(x, 10) * 10

InitCurrentData ==
    [k \in Sensors \cup required_sensors \cup {"timestamp"} \cup {"occupancy"}
           \cup EmotionKeys |->
        IF k \in Sensors \cup required_sensors \cup {"timestamp"} THEN None ELSE 0]

ranges ==
    [temperature |-> <<1500, 3500>>, humidity |-> <<3000, 7000>>,
     light |-> <<0, 100000>>, sound |-> <<0, 409500>>, gas |-> <<0, 409500>>]

Max(a, b) == IF a >= b THEN a ELSE b

Min(a, b) == IF a <= b THEN a ELSE b

normalize_value(sensor, value) ==
    IF value = None THEN 5000
    ELSE LET min_val == ranges[sensor][1]
             max_val == ranges[sensor][2]
             clamped == Max(min_val, Min(max_val, value))
         IN  RoundDiv((clamped - min_val) * 10000, max_val - min_val)

\* Python truthiness of a number or None
Truthy(v) == v # None /\ v # 0

\* One sensor's score in units of 1/2000: 100 inside [opt_min, opt_max], else
\* 100 less the distance times the sensor's weight, never below 0.
RangeScore(v, opt_min, opt_max, weight) ==
    IF opt_min <= v /\ v <= opt_max THEN 200000
    ELSE IF v < opt_min THEN Max(0, 200000 - (opt_min - v) * weight)
    ELSE Max(0, 200000 - (v - opt_max) * weight)

EnvScores(d) ==
    <<IF Truthy(d["raw_temperature"])
        THEN <<RangeScore(d["raw_temperature"], 2000, 2500, 200)>> ELSE <<>>,
      IF Truthy(d["raw_humidity"])
        THEN <<RangeScore(d["raw_humidity"], 4500, 5500, 40)>> ELSE <<>>,
      IF Truthy(d["raw_light"])
        THEN <<RangeScore(d["raw_light"], 40000, 60000, 5)>> ELSE <<>>,
      IF Truthy(d["raw_sound"])
        THEN <<RangeScore(d["raw_sound"], 0, 250000, 1)>> ELSE <<>>,
      IF Truthy(d["raw_gas"])
        THEN <<RangeScore(d["raw_gas"], 0, 150000, 1)>> ELSE <<>>>>

\* calculate_environmental_score returns early with 50.0 ...
env_score_default(d) ==
    ~ (Truthy(d["temperature"]) /\ Truthy(d["humidity"]) /\ Truthy(d["light"]))

\* ... and otherwise indexes the five raw keys: a missing one is a KeyError
env_score_raises(d) ==
    ~ env_score_default(d) /\ ~ (required_sensors \subseteq DOMAIN d)

calculate_environmental_score(d) ==
    IF env_score_default(d) THEN 5000
    ELSE LET sc == EnvScores(d)
             scores == sc[1] \o sc[2] \o sc[3] \o sc[4] \o sc[5]
             total == IF scores = <<>> THEN 0
                      ELSE LET S[i \in 0..Len(scores)] ==
                                   IF i = 0 THEN 0 ELSE S[i - 1] + scores[i]
                           IN  S[Len(scores)]
         IN  IF scores = <<>> THEN 5000
             ELSE RoundDiv(total, 20 * Len(scores))

(***************************************************************************)
(* The sensor_data table and its queries                                   *)
(***************************************************************************)
\* The INSERT of read_sensors raises (and is caught, nothing inserted) when
\* round() or isoformat() meets None, when the connection is gone, or when
\* session_id, a NOT NULL column, is None.
insert_raises(d, connection, session_id) ==
    \/ connection = None
    \/ session_id = None
    \/ d["timestamp"] = None
    \/ \E s \in {"temperature", "humidity", "light"} : Get(d, RawKey[s], 0) = None
    \/ \E s \in Sensors : Get(d, s, 0) = None

insert_row(d, session_id) ==
    [timestamp |-> d["timestamp"],
     session_id |-> session_id,
     temperature |-> Round1(Get(d, "raw_temperature", 0)),
     humidity |-> Round1(Get(d, "raw_humidity", 0)),
     light |-> Round1(Get(d, "raw_light", 0)),
     sound |-> Get(d, "raw_sound", 0),
     gas |-> Get(d, "raw_gas", 0),
     environmental_score |-> Round1(Get(d, "environmental_score", 0)),
     temperature_norm |-> Round1(Get(d, "temperature", 0)),
     humidity_norm |-> Round1(Get(d, "humidity", 0)),
     light_norm |-> Round1(Get(d, "light", 0)),
     sound_norm |-> Round1(Get(d, "sound", 0)),
     gas_norm |-> Round1(Get(d, "gas", 0)),
     occupancy |-> Get(d, "occupancy", 0),
     happy |-> Get(d, "happy", 0),
     surprise |-> Get(d, "surprise", 0),
     neutral |-> Get(d, "neutral", 0),
     sad |-> Get(d, "sad", 0),
     angry |-> Get(d, "angry", 0),
     disgust |-> Get(d, "disgust", 0),
     fear |-> Get(d, "fear", 0)]

\* INSERT INTO sensor_data keeping one row only
insert_into_replacing(table, row) == <<row>>

\* INSERT INTO sensor_data ...; commit()
insert_into(table, row) == Append(table, row)

\* SELECT ... WHERE session_id = ?: the rowids of the session's rows, ascending
RECURSIVE session_ids(_, _, _)
session_ids(table, session_id, i) ==
    IF i > Len(table) THEN <<>>
    ELSE (IF table[i].session_id = session_id THEN <<i>> ELSE <<>>)
         \o session_ids(table, session_id, i + 1)

\* SELECT COUNT(*) FROM sensor_data WHERE session_id = ?
count_rows(table, session_id) == Len(session_ids(table, session_id, 1))

\* ORDER BY timestamp: insertion of rowid i into ids, which is ascending by
\* timestamp (rows of equal timestamp keep their rowid order)
RECURSIVE insert_sorted(_, _, _)
insert_sorted(table, ids, i) ==
    IF ids = <<>> THEN <<i>>
    ELSE IF table[ids[Len(ids)]].timestamp <= table[i].timestamp
         THEN Append(ids, i)
         ELSE Append(insert_sorted(table, SubSeq(ids, 1, Len(ids) - 1), i),
                     ids[Len(ids)])

RECURSIVE order_by_timestamp(_, _)
order_by_timestamp(table, ids) ==
    IF ids = <<>> THEN <<>>
    ELSE insert_sorted(table,
                       order_by_timestamp(table, SubSeq(ids, 1, Len(ids) - 1)),
                       ids[Len(ids)])

Reverse(s) == [i \in 1..Len(s) |-> s[Len(s) + 1 - i]]

\* ... ORDER BY timestamp LIMIT ?, turned round: the oldest rows
select_recent_oldest(table, session_id, limit) ==
    LET asc == order_by_timestamp(table, session_ids(table, session_id, 1))
    IN  Reverse(SubSeq(asc, 1, Min(limit, Len(asc))))

\* ... ORDER BY timestamp DESC LIMIT ?
select_recent(table, session_id, limit) ==
    LET desc == Reverse(order_by_timestamp(table, session_ids(table, session_id, 1)))
    IN  SubSeq(desc, 1, Min(limit, Len(desc)))

Or0(v) == IF v = None THEN 0 ELSE v

\* One dict of get_recent_data's result (hour and minute are those of the
\* timestamp, a count of clock ticks here: 60 ticks to the hour)
recent_dict(row) ==
    [timestamp |-> row.timestamp,
     temperature |-> row.temperature, humidity |-> row.humidity,
     light |-> row.light, sound |-> row.sound, gas |-> row.gas,
     occupancy |-> row.occupancy,
     happy |-> row.happy, surprise |-> row.surprise, neutral |-> row.neutral,
     sad |-> row.sad, angry |-> row.angry, disgust |-> row.disgust,
     fear |-> row.fear,
     hour |-> (row.timestamp \div 60) % 24,
     minute |-> row.timestamp % 60,
     high_engagement |-> Or0(row.happy) + Or0(row.surprise) + Or0(row.neutral),
     low_engagement |-> Or0(row.sad) + Or0(row.angry) + Or0(row.disgust)
                        + Or0(row.fear)]

get_recent_data(enabled, connection, files, session_id, limit) ==
    IF ~ enabled \/ connection = None THEN <<>>
    ELSE LET rows == select_recent(files[connection], session_id, limit)
         IN  [i \in 1..Len(rows) |->
                 recent_dict(files[connection][rows[Len(rows) + 1 - i]])]

(***************************************************************************)
(* State                                                                   *)
(***************************************************************************)
VARIABLES
    cc_in,               \* classify_comfort: the arguments of the call
    cc_out,              \* classify_comfort: <<>> or <<the level returned>>
    fe_in,               \* create_time_series_features: the DataFrame df
    fe_out,              \* <<>> or <<the DataFrame returned>>
    models_loaded,       \* app.py globals set by load_ml_models
    feature_columns,
    predictor,           \* what the loaded scaler and models answer
    iot_enabled,         \* app.py: what initialize_iot returned at startup
    cv_data_sync_running,\* app.py: the flag cv_data_sync_worker loops on
    cv_data_sync_thread, \* app.py: the worker thread: "none" or its position
    history_buffer,      \* LSTMPredictor.history_buffer
    frames,              \* the number of observations made so far
    co_in,               \* connect: its arguments and what the ports answer
    co_out,              \* connect: <<>> or <<what the call returned>>
    port,                \* IoTSensorReader fields
    serial_open,         \* serial_connection is set and is_open
    data_queue,
    is_connected,        \* IoTSensorReader fields
    is_reading,
    reading_thread,      \* the Thread object of the last start_reading, 0: None
    db_logging_enabled,
    db_connection,       \* None or the database file the connection is open on
    db_file,
    db_session_id,
    current_data,
    files,               \* data/iot_log_<second>.db: file -> rows of sensor_data
    second,              \* the wall clock's second at the last start_db_logging
    now,                 \* the clock datetime.now() reads: 1 + lines read so far
    rt,                  \* read_sensors threads: position, sensor_name, value
    cv,                  \* the CV sync thread inside update_cv_data
    stop_pc,             \* where a stop is: "idle", "cv_join", "join", "flags"
    resp                 \* what the last request handler returned

vars ==
    <<cc_in, cc_out, fe_in, fe_out, models_loaded, feature_columns, predictor,
      iot_enabled, cv_data_sync_running, cv_data_sync_thread, history_buffer,
      frames, co_in, co_out, port, serial_open, data_queue, is_connected,
      is_reading, reading_thread, db_logging_enabled,
      db_connection, db_file, db_session_id, current_data, files, second, now,
      rt, cv, stop_pc, resp>>

\* what only its own specification's action writes
libVars ==
    <<cc_in, cc_out, fe_in, fe_out, models_loaded, feature_columns, predictor,
      iot_enabled, history_buffer, frames, co_in, co_out, port, serial_open>>

\* the globals of app.py that start_cv_data_sync and stop_cv_data_sync write
syncVars == <<cv_data_sync_running, cv_data_sync_thread>>

\* what no method of IoTSensorReader writes
appVars == <<libVars, syncVars>>

MaxLines == 11

MaxRaceLines == 6

MaxSeconds == 2

Threads == {1, 2}

Seconds == 1..MaxSeconds

\* The Arduino prints its five lines in this order, over and over (the
\* "Expected Arduino Output Format" of IoTSensorReader)
LineOrder == <<"humidity", "temperature", "light", "sound", "gas">>

\* the sensor of the line after n lines have been read
NextSensor(n) == LineOrder[(n % 5) + 1]

\* What the sensor lines parse to: the values, in hundredths
Readings ==
    [temperature |-> {1500, 2350}, humidity |-> {4500}, light |-> {45027},
     sound |-> {124500}, gas |-> {67800}]

NoResp == [op |-> "none"]

DeadThread == [pc |-> "dead", sensor_name |-> "temperature", value |-> 0]

NoEmotions == [e \in EmotionKeys |-> 0]

\* the CV sync thread outside update_cv_data
IdleCv == [pc |-> 0, occupancy |-> 0, emotion_counts |-> NoEmotions]

\* The state after startup: IoTSensorReader.__init__, then initialize_iot, whose
\* connect() either fails (IoT disabled) or succeeds and is followed by
\* start_reading()
InitReader(enabled) ==
    /\ iot_enabled = enabled
    /\ is_connected = enabled
    /\ is_reading = enabled
    /\ reading_thread = IF enabled THEN 1 ELSE 0
    /\ db_logging_enabled = FALSE
    /\ db_connection = None
    /\ db_file = None
    /\ db_session_id = None
    /\ current_data = InitCurrentData
    /\ files = [f \in Seconds |-> <<>>]
    /\ second = 1
    /\ now = 1
    /\ rt = [t \in Threads |->
                IF enabled /\ t = 1 THEN [DeadThread EXCEPT !.pc = "loop"]
                ELSE DeadThread]
    /\ cv = IdleCv
    /\ stop_pc = "idle"
    /\ resp = NoResp

InitNoComfort ==
    /\ cc_in = [temperature |-> 0, humidity |-> 0, gas |-> 0, light |-> 0, sound |-> 0]
    /\ cc_out = <<>>

InitNoFeatures ==
    /\ fe_in = <<>>
    /\ fe_out = <<>>

Ports == {"COM3", "COM4"}

NoPort == "None"

NoCall == [port |-> NoPort, max_retries |-> 3, detected |-> NoPort, outcomes |-> <<>>]

\* no connect call under way; the reader as __init__ or initialize_iot's
\* connect() have left it
InitNoConnect ==
    /\ co_in = NoCall
    /\ co_out = <<>>
    /\ port = IF is_connected THEN "COM3" ELSE NoPort
    /\ serial_open = is_connected

\* LSTMPredictor.__init__
InitNoHistory ==
    /\ history_buffer = <<>>
    /\ frames = 0

\* app.py at import: cv_data_sync_thread = None, cv_data_sync_running = False
InitNoSync ==
    /\ cv_data_sync_running = FALSE
    /\ cv_data_sync_thread = "none"

\* what the specifications that are not about them start with; data_queue is
\* empty after __init__ and whenever get_iot_history has just drained it
InitOthers ==
    /\ InitNoConnect
    /\ InitNoHistory
    /\ InitNoSync
    /\ data_queue = <<>>

\* current_data when the fifth line of the i-th round of the Arduino has been
\* processed, the CV data being what update_cv_data stored last
CompleteReading(i, occupancy, emotion_counts) ==
    LET value == [s \in Sensors |->
                     IF s = "temperature" /\ i % 2 = 0 THEN 1500
                     ELSE CHOOSE v \in Readings[s] : v # 1500]
        d == [k \in DOMAIN InitCurrentData |->
                 IF k \in Sensors THEN normalize_value(k, value[k])
                 ELSE IF k \in required_sensors
                      THEN value[CHOOSE s \in Sensors : RawKey[s] = k]
                 ELSE IF k = "timestamp" THEN 5 * i + 1
                 ELSE IF k = "occupancy" THEN occupancy
                 ELSE emotion_counts[k]]
    IN  Put(d, "environmental_score", calculate_environmental_score(d))

(***************************************************************************)
(* read_sensors: one action per statement group of the loop body.  T is    *)
(* the set of thread slots of the specification, max_lines the number of   *)
(* lines the Arduino sends in it, max_queue the number of snapshots it     *)
(* keeps in data_queue, which is unbounded and which only get_iot_history  *)
(* reads: a specification without that handler keeps none.                 *)
(***************************************************************************)
ThreadVarsUnchanged ==
    UNCHANGED <<appVars, is_connected, is_reading, reading_thread,
                db_logging_enabled, db_connection, db_file, db_session_id,
                second, cv, stop_pc>>

\* while self.is_reading: ... readline() ... parse_sensor_line(line)
ReadLine(t, max_lines) ==
    /\ rt[t].pc = "loop"
    /\ is_reading
    /\ now <= max_lines
    /\ \E v \in Readings[NextSensor(now - 1)] :
           rt' = [rt EXCEPT ![t] = [pc |-> "store_raw",
                                    sensor_name |-> NextSensor(now - 1),
                                    value |-> v]]
    /\ now' = now + 1
    /\ resp' = NoResp
    /\ UNCHANGED <<current_data, files, data_queue>>
    /\ ThreadVarsUnchanged

\* the loop condition found false: the thread ends
ExitThread(t) ==
    /\ rt[t].pc = "loop"
    /\ ~ is_reading
    /\ rt' = [rt EXCEPT ![t] = DeadThread]
    /\ resp' = NoResp
    /\ UNCHANGED <<current_data, files, now, data_queue>>
    /\ ThreadVarsUnchanged

\* self.current_data[f'raw_{sensor_name}'] = value
StoreRaw(t) ==
    /\ rt[t].pc = "store_raw"
    /\ current_data' = Put(current_data, RawKey[rt[t].sensor_name], rt[t].value)
    /\ rt' = [rt EXCEPT ![t].pc = "store_norm"]
    /\ resp' = NoResp
    /\ UNCHANGED <<files, now, data_queue>>
    /\ ThreadVarsUnchanged

\* self.current_data[sensor_name] = self.normalize_value(sensor_name, value)
StoreNorm(t) ==
    /\ rt[t].pc = "store_norm"
    /\ current_data' = Put(current_data, rt[t].sensor_name,
                           normalize_value(rt[t].sensor_name, rt[t].value))
    /\ rt' = [rt EXCEPT ![t].pc = "store_ts"]
    /\ resp' = NoResp
    /\ UNCHANGED <<files, now, data_queue>>
    /\ ThreadVarsUnchanged

\* self.current_data['timestamp'] = datetime.now()
StoreTimestamp(t) ==
    /\ rt[t].pc = "store_ts"
    /\ current_data' = Put(current_data, "timestamp", now)
    /\ rt' = [rt EXCEPT ![t].pc = "score"]
    /\ resp' = NoResp
    /\ UNCHANGED <<files, now, data_queue>>
    /\ ThreadVarsUnchanged

\* env_score = self.calculate_environmental_score(); a KeyError leaves the
\* rest of the loop body undone (except Exception: ... time.sleep(1));
\* otherwise self.data_queue.put_nowait(self.current_data.copy()), of which
\* the specification keeps the first max_queue
StoreScore(t, max_queue) ==
    /\ rt[t].pc = "score"
    /\ IF env_score_raises(current_data)
       THEN /\ rt' = [rt EXCEPT ![t].pc = "loop"]
            /\ UNCHANGED <<current_data, data_queue>>
       ELSE /\ current_data' = Put(current_data, "environmental_score",
                                   calculate_environmental_score(current_data))
            /\ data_queue' = IF Len(data_queue) < max_queue
                             THEN Append(data_queue, current_data')
                             ELSE data_queue
            /\ rt' = [rt EXCEPT ![t].pc = "db_check"]
    /\ resp' = NoResp
    /\ UNCHANGED <<files, now>>
    /\ ThreadVarsUnchanged

\* if self.db_logging_enabled: ... if all(key in self.current_data ...)
DbCheck(t) ==
    /\ rt[t].pc = "db_check"
    /\ rt' = [rt EXCEPT ![t].pc =
                 IF db_logging_enabled /\ required_sensors \subseteq DOMAIN current_data
                 THEN "db_insert" ELSE "loop"]
    /\ resp' = NoResp
    /\ UNCHANGED <<current_data, files, now, data_queue>>
    /\ ThreadVarsUnchanged

\* cursor.execute('INSERT INTO sensor_data ...'); self.db_connection.commit()
DbInsert(t) ==
    /\ rt[t].pc = "db_insert"
    /\ IF insert_raises(current_data, db_connection, db_session_id)
       THEN /\ rt' = [rt EXCEPT ![t].pc = "loop"]
            /\ UNCHANGED files
       ELSE /\ files' = [files EXCEPT ![db_connection] =
                            insert_into(@, insert_row(current_data, db_session_id))]
            /\ rt' = [rt EXCEPT ![t].pc = "db_clear"]
    /\ resp' = NoResp
    /\ UNCHANGED <<current_data, now, data_queue>>
    /\ ThreadVarsUnchanged

\* for sensor in required_sensors: ... del self.current_data[sensor]
DbClear(t) ==
    /\ rt[t].pc = "db_clear"
    /\ current_data' = Del(current_data, required_sensors)
    /\ rt' = [rt EXCEPT ![t].pc = "loop"]
    /\ resp' = NoResp
    /\ UNCHANGED <<files, now, data_queue>>
    /\ ThreadVarsUnchanged

\* read_sensors as run by thread t
read_sensors(t, max_lines, max_queue) ==
    \/ ReadLine(t, max_lines)
    \/ ExitThread(t)
    \/ StoreRaw(t)
    \/ StoreNorm(t)
    \/ StoreTimestamp(t)
    \/ StoreScore(t, max_queue)
    \/ DbCheck(t)
    \/ DbInsert(t)
    \/ DbClear(t)

(***************************************************************************)
(* start_db_logging, stop_db_logging: the methods of IoTSensorReader, which *)
(* leave the globals of app.py to their callers                            *)
(***************************************************************************)
FreeThreads(T) == {t \in T : rt[t].pc = "dead"}

start_refused_resetting(message) ==
    /\ resp' = [op |-> "start", success |-> FALSE, message |-> message]
    /\ db_file' = None
    /\ db_session_id' = None
    /\ UNCHANGED <<is_reading, reading_thread, db_logging_enabled,
                   db_connection, second, rt>>

\* the two early returns of start_db_logging: return {'success': False, ...}
start_refused(message) ==
    /\ resp' = [op |-> "start", success |-> FALSE, message |-> message]
    /\ UNCHANGED <<is_reading, reading_thread, db_logging_enabled,
                   db_connection, db_file, db_session_id, second, rt>>

\* start_db_logging; its datetime.now() has the resolution of a second, and
\* the file of that second may exist already (CREATE TABLE IF NOT EXISTS)
start_db_logging(T) ==
    /\ stop_pc = "idle"
    /\ IF db_logging_enabled
       THEN start_refused("Database logging already active")
       ELSE IF ~ is_connected
       THEN start_refused("IoT sensors not connected")
       ELSE /\ is_reading \/ FreeThreads(T) # {}
            /\ \E timestamp \in {x \in Seconds : x >= second} :
                   /\ second' = timestamp
                   /\ db_file' = timestamp
                   /\ db_session_id' = timestamp
                   /\ db_connection' = timestamp
            /\ db_logging_enabled' = TRUE
            /\ IF is_reading
               THEN UNCHANGED <<is_reading, reading_thread, rt>>
               ELSE \E t \in FreeThreads(T) :
                        /\ is_reading' = TRUE
                        /\ reading_thread' = t
                        /\ rt' = [rt EXCEPT ![t].pc = "loop"]
            /\ resp' = [op |-> "start", success |-> TRUE,
                        message |-> "Database logging started"]
    /\ UNCHANGED <<libVars, data_queue, is_connected, current_data, files, now, cv,
                   stop_pc>>

\* the part of stop_db_logging after the join, up to
\* self.db_connection = None
StopClose ==
    /\ db_connection' = None
    /\ stop_pc' = "flags"
    /\ resp' = NoResp
    /\ UNCHANGED <<db_logging_enabled, db_file, db_session_id>>

\* stop_db_logging up to self.reading_thread.join(timeout=2) or, when no
\* thread is reading, up to self.db_connection = None; at is where its caller
\* stands: "idle" for a call of its own, "cv_join" for stop_iot_logging
stop_db_logging(at) ==
    /\ stop_pc = at
    /\ IF ~ db_logging_enabled
       THEN /\ resp' = [op |-> "stop", success |-> FALSE,
                        message |-> "Database logging not active"]
            /\ stop_pc' = "idle"
            /\ UNCHANGED <<is_reading, db_logging_enabled, db_connection,
                           db_file, db_session_id>>
       ELSE IF is_reading
       THEN /\ is_reading' = FALSE
            /\ stop_pc' = "join"
            /\ resp' = NoResp
            /\ UNCHANGED <<db_logging_enabled, db_connection, db_file, db_session_id>>
       ELSE /\ StopClose
            /\ UNCHANGED is_reading
    /\ UNCHANGED <<libVars, data_queue, is_connected, reading_thread, current_data,
                   files, second, now, rt, cv>>

\* join(timeout=2) returns: the thread has ended or, where the specification
\* lets the two seconds run out (timeout), it has not
stop_db_logging_joined(timeout) ==
    /\ stop_pc = "join"
    /\ rt[reading_thread].pc = "dead" \/ timeout
    /\ StopClose
    /\ UNCHANGED <<appVars, data_queue, is_connected, is_reading, reading_thread,
                   current_data, files, second, now, rt, cv>>

\* self.db_logging_enabled = False; self.db_file = None;
\* self.db_session_id = None; return {'success': True, ...}.  The count was
\* taken before the connection was closed; no row can have been inserted
\* since, the connection being None
stop_db_logging_return ==
    /\ stop_pc = "flags"
    /\ resp' = [op |-> "stop", success |-> TRUE,
                message |-> "Database logging stopped",
                record_count |-> count_rows(files[db_file], db_session_id)]
    /\ db_logging_enabled' = FALSE
    /\ db_file' = None
    /\ db_session_id' = None
    /\ stop_pc' = "idle"
    /\ UNCHANGED <<appVars, data_queue, is_connected, is_reading, reading_thread,
                   db_connection, current_data, files, second, now, rt, cv>>

(***************************************************************************)
(* update_cv_data, called by cv_data_sync_worker: eight assignments        *)
(***************************************************************************)
MaxCount == 1

CvOrder ==
    <<"occupancy", "happy", "surprise", "neutral", "sad", "angry", "disgust", "fear">>

EmotionCounts ==
    {ec \in [EmotionKeys -> 0..MaxCount] :
        \A e \in {"surprise", "neutral", "angry", "disgust", "fear"} : ec[e] = 0}

\* cv_data_sync_worker finds logging enabled and enters
\* iot_sensor.update_cv_data(occupancy, emotion_counts)
cv_data_sync_worker ==
    /\ cv.pc = 0
    /\ iot_enabled /\ db_logging_enabled
    /\ \E occupancy \in 0..MaxCount, emotion_counts \in EmotionCounts :
           cv' = [pc |-> 1, occupancy |-> occupancy,
                  emotion_counts |-> emotion_counts]
    /\ resp' = NoResp
    /\ UNCHANGED <<appVars, data_queue, is_connected, is_reading, reading_thread,
                   db_logging_enabled, db_connection, db_file, db_session_id,
                   current_data, files, second, now, rt, stop_pc>>

\* self.current_data['occupancy'] = occupancy, ... ['fear'] = ...
update_cv_data ==
    /\ cv.pc \in 1..Len(CvOrder)
    /\ current_data' =
           Put(current_data, CvOrder[cv.pc],
               IF cv.pc = 1 THEN cv.occupancy ELSE cv.emotion_counts[CvOrder[cv.pc]])
    /\ cv' = IF cv.pc = Len(CvOrder) THEN IdleCv ELSE [cv EXCEPT !.pc = @ + 1]
    /\ resp' = NoResp
    /\ UNCHANGED <<appVars, data_queue, is_connected, is_reading, reading_thread,
                   db_logging_enabled, db_connection, db_file, db_session_id,
                   files, second, now, rt, stop_pc>>

(***************************************************************************)
(* app.py: create_time_series_features.  A DataFrame is the sequence of    *)
(* its rows; a cell is NaN where the row holds None.  The engineered table *)
(* is kept as its column names and, per row that dropna() keeps, the       *)
(* position of the row in df: the feature values themselves only feed the  *)
(* scaler and the models, whose outputs are inputs of this model.          *)
(***************************************************************************)
forecast_features == {"temperature", "humidity", "gas", "light", "sound"}

complementing_features == {"occupancy", "high_engagement", "low_engagement"}

windows == {5, 10, 15, 20}

\* the keys of one dict of get_recent_data: the columns of pd.DataFrame(recent_data)
DfColumns ==
    {"timestamp", "temperature", "humidity", "light", "sound", "gas", "occupancy",
     "hour", "minute", "high_engagement", "low_engagement"} \cup EmotionKeys

Column(feature, kind, n) == feature \o "_" \o kind \o "_" \o ToString(n)

\* feature_dict: column name -> how the column is computed
feature_dict(ff, cf, ws) ==
    {[name |-> Column(f, k, w), kind |-> k, feature |-> f, n |-> w] :
        f \in ff, k \in {"roll_mean", "roll_std", "roll_min", "roll_max"}, w \in ws}
    \cup {[name |-> Column(f, "lag", l), kind |-> "lag", feature |-> f, n |-> l] :
        f \in ff, l \in {1, 2, 3, 5, 10}}
    \cup {[name |-> Column(f, "trend", d), kind |-> "trend", feature |-> f, n |-> d] :
        f \in ff, d \in {5, 10}}
    \cup {[name |-> Column(f, k, w), kind |-> k, feature |-> f, n |-> w] :
        f \in cf, k \in {"roll_mean", "roll_std"}, w \in {5, 10, 15}}
    \cup {[name |-> Column(f, "lag", l), kind |-> "lag", feature |-> f, n |-> l] :
        f \in cf, l \in {1, 2, 5}}

\* IsNaN with rolling(window) left at its default min_periods = window
IsNaN_full_window(df, i, col) ==
    CASE col.kind \in {"roll_mean", "roll_min", "roll_max"} ->
             i < col.n \/ \E j \in Max(1, i - col.n + 1)..i : df[j][col.feature] = None
      [] col.kind = "roll_std" -> FALSE
      [] col.kind = "lag" -> i <= col.n \/ df[i - col.n][col.feature] = None
      [] col.kind = "trend" ->
             i <= col.n \/ df[i][col.feature] = None
                        \/ df[i - col.n][col.feature] = None

\* Is row i of the column NaN?  rolling(window, min_periods=1) is NaN only with
\* no value in the window, its std() is NaN-filled with 0, shift(n) and diff(n)
\* are NaN in the first n rows and where a row they read is NaN.
IsNaN(df, i, col) ==
    CASE col.kind \in {"roll_mean", "roll_min", "roll_max"} ->
             \A j \in Max(1, i - col.n + 1)..i : df[j][col.feature] = None
      [] col.kind = "roll_std" -> FALSE
      [] col.kind = "lag" -> i <= col.n \/ df[i - col.n][col.feature] = None
      [] col.kind = "trend" ->
             i <= col.n \/ df[i][col.feature] = None
                        \/ df[i - col.n][col.feature] = None

\* dropna() looking at the columns of df only
dropna_drops_df_only(df, i, fd) == \E c \in DfColumns : df[i][c] = None

\* df_features.dropna() drops row i of df with the columns of fd added
dropna_drops(df, i, fd) ==
    \/ \E c \in DfColumns : df[i][c] = None
    \/ \E col \in fd : IsNaN(df, i, col)

create_time_series_features(df, ff, cf, ws) ==
    LET fd == feature_dict(ff, cf, ws)
        kept(i) == ~ dropna_drops(df, i, fd)
    IN  [columns |-> DfColumns \cup {col.name : col \in fd}
                     \cup {"engagement_ratio", "occupancy_engagement"},
         index |-> SelectSeq([i \in 1..Len(df) |-> i], kept)]

(***************************************************************************)
(* app.py: get_forecast_prediction and check_alerts.  What the scaler and  *)
(* the two models return on the session's latest feature row is the        *)
(* variable predictor: future_values (the five predicted values) and       *)
(* comfort_prediction, or an exception (fails).  calls lists the scaler    *)
(* and model methods the handler has invoked.                              *)
(***************************************************************************)
\* int(x) of a value in hundredths: truncation towards zero
PyInt(x) == IF x >= 0 THEN (x \div 100) * 100 ELSE - (((- x) \div 100) * 100)

comfort_labels_map == <<"Critical", "Poor", "Acceptable", "Optimal">>

\* the columns Emotion-b2.py selects from the engineered table of training
TrainedColumns ==
    {col.name : col \in feature_dict(forecast_features, complementing_features, windows)}
    \cup {"hour", "minute", "occupancy", "high_engagement", "low_engagement",
          "engagement_ratio", "occupancy_engagement"}

\* the temperature rule with its thresholds taken inclusively
temperature_rule_inclusive(future_values) ==
    IF future_values.temperature >= 2400
    THEN <<[type |-> "warning", message |-> "Temperature rising - Consider cooling"]>>
    ELSE IF future_values.temperature <= 2200
    THEN <<[type |-> "warning", message |-> "Temperature dropping - Reduce cooling"]>>
    ELSE <<>>

\* if future_values[0] > 24: ... elif future_values[0] < 22: ...
temperature_rule(future_values) ==
    IF future_values.temperature > 2400
    THEN <<[type |-> "warning", message |-> "Temperature rising - Consider cooling"]>>
    ELSE IF future_values.temperature < 2200
    THEN <<[type |-> "warning", message |-> "Temperature dropping - Reduce cooling"]>>
    ELSE <<>>

\* if future_values[2] > 800: ...
gas_rule(future_values) ==
    IF future_values.gas > 80000
    THEN <<[type |-> "alert", message |-> "CO2 levels high - Ventilation needed"]>>
    ELSE <<>>

\* the comfort rule firing below Optimal
comfort_rule_below_optimal(comfort_prediction) ==
    IF comfort_prediction <= 2
    THEN <<[type |-> "alert", message |-> "ALERT: Uncomfortable conditions predicted"]>>
    ELSE <<>>

\* if comfort_prediction <= 1: ...
comfort_rule(comfort_prediction) ==
    IF comfort_prediction <= 1
    THEN <<[type |-> "alert", message |-> "ALERT: Uncomfortable conditions predicted"]>>
    ELSE <<>>

triggered_rules(future_values, current_row, comfort_prediction) ==
            temperature_rule(future_values)
         \o gas_rule(future_values)
         \o (IF future_values.humidity < 3000
             THEN <<[type |-> "warning", message |-> "Low humidity - Consider humidifier"]>>
             ELSE IF future_values.humidity > 5000
             THEN <<[type |-> "warning", message |-> "High humidity - Ventilation needed"]>>
             ELSE <<>>)
         \o (IF future_values.light < 15000
             THEN <<[type |-> "info", message |-> "Low light - Increase lighting"]>>
             ELSE IF future_values.light > 25000
             THEN <<[type |-> "info", message |-> "Bright lighting - Consider dimming"]>>
             ELSE <<>>)
         \o (IF current_row.low_engagement > current_row.high_engagement
             THEN <<[type |-> "warning", message |-> "Low student engagement detected"]>>
             ELSE <<>>)
         \o comfort_rule(comfort_prediction)

\* recommendations without its "if not recommendations" fallback
recommendations_no_fallback(future_values, current_row, comfort_prediction) ==
    triggered_rules(future_values, current_row, comfort_prediction)

recommendations(future_values, current_row, comfort_prediction) ==
    LET rules == triggered_rules(future_values, current_row, comfort_prediction)
    IN  IF rules = <<>>
        THEN <<[type |-> "success", message |-> "All conditions optimal"]>>
        ELSE rules

\* A probability p of predict_proba is kept in ten-thousandths (1.0 is 10000),
\* and so are p * 100 and round(p * 100, 1)
Range(s) == {s[i] : i \in 1..Len(s)}

\* np.argmax(proba): the first position of the largest value
argmax(proba) ==
    CHOOSE i \in 1..Len(proba) :
        /\ \A j \in 1..Len(proba) : proba[j] <= proba[i]
        /\ \A j \in 1..(i - 1) : proba[j] < proba[i]

\* rf_model.predict: classes_.take(np.argmax(proba))
rf_predict(actual_classes, comfort_proba) == actual_classes[argmax(comfort_proba)]

\* pred_idx taken to be the class value itself (as if classes_ were 0, 1, 2, 3)
pred_idx_fixed(actual_classes, comfort_prediction) ==
    Min(comfort_prediction + 1, Len(actual_classes))

\* np.where(actual_classes == comfort_prediction)[0][0]
pred_idx(actual_classes, comfort_prediction) ==
    CHOOSE i \in 1..Len(actual_classes) :
        /\ actual_classes[i] = comfort_prediction
        /\ \A j \in 1..(i - 1) : actual_classes[j] # comfort_prediction

\* float(comfort_proba[pred_idx] * 100)
confidence(actual_classes, comfort_proba, comfort_prediction) ==
    comfort_proba[pred_idx(actual_classes, comfort_prediction)] * 100

\* round(confidence, 1)
round_confidence(x) == RoundDiv(x, 1000) * 1000

\* comfort_probabilities with an entry for each of the four labels
comfort_probabilities_four(actual_classes, comfort_proba) ==
    [label \in Range(comfort_labels_map) |->
        LET at == {i \in 1..Len(actual_classes) :
                      comfort_labels_map[actual_classes[i] + 1] = label}
        IN  IF at = {} THEN 0 ELSE comfort_proba[CHOOSE i \in at : TRUE] * 100]

\* comfort_probabilities[comfort_labels_map[cls]] = float(comfort_proba[i] * 100)
\* for i, cls in enumerate(actual_classes): a later class of the same label
\* overwrites an earlier one
comfort_probabilities(actual_classes, comfort_proba) ==
    [label \in {comfort_labels_map[cls + 1] : cls \in Range(actual_classes)} |->
        LET at == {i \in 1..Len(actual_classes) :
                      comfort_labels_map[actual_classes[i] + 1] = label}
        IN  comfort_proba[CHOOSE i \in at : \A j \in at : j <= i] * 100]

ModelCalls ==
    <<"gb_scaler.transform", "gb_model.predict", "rf_model.predict",
      "rf_model.predict_proba">>

\* if len(recent_data) < 19
too_few_readings_19(recent_data) == Len(recent_data) < 19

\* if len(recent_data) < 20
too_few_readings(recent_data) == Len(recent_data) < 20

\* the handler's return value once the scaler is reached
forecast_predict(recent_data, future_values, comfort_prediction, comfort_proba, actual_classes, fails) ==
    LET current_row == recent_data[Len(recent_data)]
    IN  IF fails
        THEN [status |-> 500, calls |-> <<"gb_scaler.transform">>,
              body |-> [success |-> FALSE, error |-> "Prediction failed"]]
        ELSE [status |-> 200, calls |-> ModelCalls,
              future_values |-> future_values,
              comfort_prediction |-> comfort_prediction,
              body |->
                [success |-> TRUE,
                 current |->
                    [temperature |-> current_row.temperature,
                     humidity |-> current_row.humidity,
                     gas |-> PyInt(current_row.gas),
                     light |-> current_row.light,
                     sound |-> PyInt(current_row.sound),
                     occupancy |-> current_row.occupancy,
                     high_engagement |-> current_row.high_engagement,
                     low_engagement |-> current_row.low_engagement],
                 predicted |->
                    [temperature |-> future_values.temperature,
                     humidity |-> future_values.humidity,
                     gas |-> PyInt(future_values.gas),
                     light |-> future_values.light,
                     sound |-> PyInt(future_values.sound),
                     delta_temperature |->
                         future_values.temperature - current_row.temperature,
                     delta_humidity |-> future_values.humidity - current_row.humidity,
                     delta_gas |-> PyInt(future_values.gas - current_row.gas),
                     delta_light |-> future_values.light - current_row.light,
                     delta_sound |-> PyInt(future_values.sound - current_row.sound)],
                 comfort |->
                    [level |-> comfort_labels_map[comfort_prediction + 1],
                     level_code |-> comfort_prediction,
                     confidence |->
                         round_confidence(confidence(actual_classes, comfort_proba,
                                                     comfort_prediction)),
                     probabilities |->
                         comfort_probabilities(actual_classes, comfort_proba)],
                 recommendations |->
                     recommendations(future_values, current_row, comfort_prediction),
                 data_points_used |-> Len(recent_data)]]

\* the returns of the handler that come before the scaler: <<the value
\* returned>>, or <<>> when the handler goes on to the scaler
forecast_early(recent_data, df_engineered) ==
    IF ~ models_loaded
    THEN <<[status |-> 503, calls |-> <<>>,
            body |-> [success |-> FALSE, error |-> "ML models not loaded"]]>>
    ELSE IF ~ iot_enabled
    THEN <<[status |-> 503, calls |-> <<>>,
            body |-> [success |-> FALSE, error |-> "IoT sensors not available"]]>>
    ELSE IF too_few_readings(recent_data)
    THEN <<[status |-> 200, calls |-> <<>>,
            body |-> [success |-> FALSE,
                      error |-> "Insufficient data for prediction (need at least 20 readings)",
                      message |-> "Please start IoT logging and wait for data collection",
                      data_points |-> Len(recent_data)]]>>
    ELSE IF ~ ({"temperature", "humidity", "gas", "light", "sound", "occupancy",
                "high_engagement", "low_engagement", "hour", "minute"}
               \subseteq DfColumns)
    THEN <<[status |-> 200, calls |-> <<>>,
            body |-> [success |-> FALSE, error |-> "Missing required columns"]]>>
    ELSE IF Len(df_engineered.index) = 0
    THEN <<[status |-> 200, calls |-> <<>>,
            body |-> [success |-> FALSE,
                      error |-> "Feature engineering failed - insufficient data after rolling window processing",
                      raw_data_points |-> Len(recent_data)]]>>
    ELSE IF feature_columns \ df_engineered.columns # {}
    THEN <<[status |-> 200, calls |-> <<>>,
            body |-> [success |-> FALSE,
                      error |-> "Feature engineering produced missing columns",
                      missing |-> Cardinality(feature_columns \ df_engineered.columns)]]>>
    ELSE <<>>

\* if comfort_prediction == 0: ... elif comfort_prediction == 1: ...
comfort_alert(comfort_prediction) ==
    IF comfort_prediction = 0
    THEN <<[id |-> "comfort_critical", type |-> "error", priority |-> "high"]>>
    ELSE IF comfort_prediction = 1
    THEN <<[id |-> "comfort_poor", type |-> "warning", priority |-> "medium"]>>
    ELSE <<>>

alerts_of(future_values, current_row, comfort_prediction) ==
       comfort_alert(comfort_prediction)
    \o (IF future_values.temperature > 2600
        THEN <<[id |-> "temp_high", type |-> "warning", priority |-> "medium"]>>
        ELSE IF future_values.temperature < 2000
        THEN <<[id |-> "temp_low", type |-> "warning", priority |-> "low"]>>
        ELSE <<>>)
    \o (IF future_values.gas > 100000
        THEN <<[id |-> "co2_critical", type |-> "error", priority |-> "high"]>>
        ELSE IF future_values.gas > 80000
        THEN <<[id |-> "co2_warning", type |-> "warning", priority |-> "medium"]>>
        ELSE <<>>)
    \o (IF future_values.humidity < 3000
        THEN <<[id |-> "humidity_low", type |-> "info", priority |-> "low"]>>
        ELSE IF future_values.humidity > 6000
        THEN <<[id |-> "humidity_high", type |-> "warning", priority |-> "medium"]>>
        ELSE <<>>)
    \o (IF future_values.light < 10000
        THEN <<[id |-> "light_low", type |-> "info", priority |-> "low"]>>
        ELSE <<>>)
    \o (IF current_row.low_engagement > current_row.high_engagement
           /\ current_row.occupancy > 0
        THEN <<[id |-> "engagement_low", type |-> "warning", priority |-> "medium"]>>
        ELSE <<>>)

\* check_alerts' return value once the scaler is reached
alerts_predict(recent_data, future_values, comfort_prediction, fails) ==
    IF fails
    THEN [status |-> 200, calls |-> <<"gb_scaler.transform">>,
          body |-> [success |-> FALSE, error |-> "error", alerts |-> <<>>]]
    ELSE [status |-> 200,
          calls |-> <<"gb_scaler.transform", "gb_model.predict", "rf_model.predict">>,
          future_values |-> future_values,
          comfort_prediction |-> comfort_prediction,
          body |-> [success |-> TRUE,
                    alerts |-> alerts_of(future_values, recent_data[Len(recent_data)],
                                         comfort_prediction)]]

\* alerts_early without the test of models_loaded
alerts_early_unguarded(recent_data, df_engineered) ==
    IF ~ iot_enabled
    THEN <<[status |-> 200, calls |-> <<>>,
            body |-> [success |-> TRUE, alerts |-> <<>>,
                      message |-> "System not ready for alerts"]]>>
    ELSE IF too_few_readings(recent_data)
    THEN <<[status |-> 200, calls |-> <<>>,
            body |-> [success |-> TRUE, alerts |-> <<>>,
                      message |-> "Insufficient data for prediction"]]>>
    ELSE <<>>

\* the returns of check_alerts that come before the scaler, or <<>>
alerts_early(recent_data, df_engineered) ==
    IF ~ models_loaded \/ ~ iot_enabled
    THEN <<[status |-> 200, calls |-> <<>>,
            body |-> [success |-> TRUE, alerts |-> <<>>,
                      message |-> "System not ready for alerts"]]>>
    ELSE IF too_few_readings(recent_data)
    THEN <<[status |-> 200, calls |-> <<>>,
            body |-> [success |-> TRUE, alerts |-> <<>>,
                      message |-> "Insufficient data for prediction"]]>>
    ELSE IF Len(df_engineered.index) = 0
    THEN <<[status |-> 200, calls |-> <<>>,
            body |-> [success |-> TRUE, alerts |-> <<>>,
                      message |-> "Feature engineering failed"]]>>
    ELSE IF feature_columns \ df_engineered.columns # {}
    THEN <<[status |-> 200, calls |-> <<>>,
            body |-> [success |-> TRUE, alerts |-> <<>>,
                      message |-> "Feature mismatch for prediction"]]>>
    ELSE <<>>

\* What gb_model.predict may return, in hundredths: the values around the
\* thresholds of the recommendation and alert rules
FutureValues ==
    [temperature : {1999, 2199, 2200, 2300, 2400, 2401, 2601},
     humidity : {2999, 3000, 5001, 6001},
     gas : {80000, 80050, 100000, 100001},
     light : {9999, 10000, 15000, 25001},
     sound : {5050}]

ComfortClasses == 0..3

\* What rf_model holds and answers: classes_, the row of predict_proba and
\* the value of predict
ClassifierOutput(actual_classes, comfort_proba) ==
    [actual_classes |-> actual_classes,
     comfort_proba |-> comfort_proba,
     comfort_prediction |-> rf_predict(actual_classes, comfort_proba)]

\* a forest trained on all four classes that gives class c seven votes in ten
Confident(c) ==
    ClassifierOutput(<<0, 1, 2, 3>>, [i \in 1..4 |-> IF i = c + 1 THEN 7000 ELSE 1000])

\* gb_scaler.transform(X) raises ValueError unless X has the number of
\* columns the scaler was fitted on (n_features_in_)
transform_raises(columns, n_features_in) == Cardinality(columns) # n_features_in

\* The predictor of a session that never reaches the scaler
NoPredictor ==
    [future_values |-> [temperature |-> 2300, humidity |-> 4000, gas |-> 50000,
                        light |-> 20000, sound |-> 5000],
     fails |-> FALSE,
     n_features_in |-> Cardinality(TrainedColumns)] @@ Confident(3)

RequestVarsUnchanged ==
    UNCHANGED <<appVars, data_queue, is_connected, is_reading, reading_thread,
                db_logging_enabled, db_connection, db_file, db_session_id,
                current_data, files, second, now, rt, cv, stop_pc>>

\* GET /api/prediction/forecast
get_forecast_prediction ==
    /\ LET recent_data == get_recent_data(db_logging_enabled, db_connection,
                                          files, db_session_id, 30)
           df_engineered ==
               create_time_series_features(recent_data, forecast_features,
                                           complementing_features, windows)
           early == forecast_early(recent_data, df_engineered)
       IN  IF early # <<>>
           THEN resp' = [op |-> "forecast"] @@ early[1]
           ELSE resp' = [op |-> "forecast"] @@
                        forecast_predict(recent_data, predictor.future_values,
                                         predictor.comfort_prediction,
                                         predictor.comfort_proba,
                                         predictor.actual_classes,
                                         \/ predictor.fails
                                         \/ transform_raises(feature_columns,
                                                             predictor.n_features_in))
    /\ RequestVarsUnchanged

\* GET /api/alerts/check
check_alerts ==
    /\ LET recent_data == get_recent_data(db_logging_enabled, db_connection,
                                          files, db_session_id, 30)
           df_engineered ==
               create_time_series_features(recent_data, forecast_features,
                                           complementing_features, windows)
           early == alerts_early(recent_data, df_engineered)
       IN  IF early # <<>>
           THEN resp' = [op |-> "alerts"] @@ early[1]
           ELSE resp' = [op |-> "alerts"] @@
                        alerts_predict(recent_data, predictor.future_values,
                                       predictor.comfort_prediction,
                                       \/ predictor.fails
                                       \/ transform_raises(feature_columns,
                                                           predictor.n_features_in))
    /\ RequestVarsUnchanged

(***************************************************************************)
(* The request handlers that only read the IoTSensorReader                 *)
(***************************************************************************)
\* return self.current_data.copy()
get_current_data ==
    /\ resp' = [op |-> "current", data |-> current_data]
    /\ RequestVarsUnchanged

MaxLimit == 3

\* iot_sensor.get_recent_data(limit)
GetRecentData ==
    /\ \E limit \in 0..MaxLimit :
           resp' = [op |-> "recent", limit |-> limit,
                    data |-> get_recent_data(db_logging_enabled, db_connection,
                                             files, db_session_id, limit)]
    /\ RequestVarsUnchanged

get_db_logging_status ==
    /\ resp' = IF ~ db_logging_enabled
               THEN [op |-> "status", enabled |-> FALSE, db_file |-> None,
                     session_id |-> None, record_count |-> 0]
               ELSE [op |-> "status", enabled |-> TRUE, db_file |-> db_file,
                     session_id |-> db_session_id,
                     record_count |->
                         IF db_connection = None THEN 0
                         ELSE count_rows(files[db_connection], db_session_id)]
    /\ RequestVarsUnchanged

\* export_db_to_csv: SELECT ... WHERE session_id = ? ORDER BY timestamp
export_db_to_csv ==
    /\ resp' = IF ~ db_logging_enabled \/ db_connection = None
               THEN [op |-> "export", success |-> FALSE,
                     message |-> "No active database logging session"]
               ELSE LET table == files[db_connection]
                        rows == order_by_timestamp(
                                    table, session_ids(table, db_session_id, 1))
                    IN  [op |-> "export", success |-> TRUE,
                         rows |-> [i \in 1..Len(rows) |-> table[rows[i]]],
                         record_count |-> Len(rows)]
    /\ RequestVarsUnchanged

(***************************************************************************)
(* The logging session: one read_sensors thread (the bounded join of       *)
(* stop_db_logging outlasts the thread's current iteration), logging       *)
(* started and stopped, and the request handlers                           *)
(***************************************************************************)
InitSession(loaded) ==
    /\ InitNoComfort
    /\ InitNoFeatures
    /\ models_loaded = loaded
    /\ feature_columns = TrainedColumns
    /\ predictor = NoPredictor
    /\ \E enabled \in BOOLEAN : InitReader(enabled)
    /\ InitOthers

Init == \E loaded \in BOOLEAN : InitSession(loaded)

Next ==
    \/ read_sensors(1, MaxLines, 0)
    \/ start_db_logging({1}) /\ UNCHANGED syncVars
    \/ stop_db_logging("idle") /\ UNCHANGED syncVars
    \/ stop_db_logging_joined(FALSE)
    \/ stop_db_logging_return
    \/ get_current_data
    \/ GetRecentData
    \/ get_db_logging_status
    \/ export_db_to_csv
    \/ get_forecast_prediction
    \/ check_alerts

Spec == Init /\ [][Next]_vars

(***************************************************************************)
(* classify_comfort on its own                                             *)
(***************************************************************************)
TemperatureInputs == {1800, 2099, 2100, 2200, 2400, 2401, 2500, 2501}

HumidityInputs == {2000, 2499, 2500, 3000, 5000, 5001, 5500, 5501}

GasInputs == {60000, 79900, 79999, 80000, 99900, 99999, 100000, 200000}

LightInputs == {5000, 9999, 10000, 15000, 25000, 25001, 30000, 30001}

SoundInputs == {0, 3499, 3500, 6000, 6001, 7000, 7001, 10000}

InitComfort ==
    /\ cc_in \in [temperature : TemperatureInputs, humidity : HumidityInputs,
                  gas : GasInputs, light : LightInputs, sound : SoundInputs]
    /\ cc_out = <<>>
    /\ InitNoFeatures
    /\ models_loaded = FALSE
    /\ feature_columns = TrainedColumns
    /\ predictor = NoPredictor
    /\ InitReader(FALSE)
    /\ InitOthers

ClassifyComfort ==
    /\ cc_out = <<>>
    /\ cc_out' = <<classify_comfort(cc_in.temperature, cc_in.humidity, cc_in.gas,
                                    cc_in.light, cc_in.sound)>>
    /\ UNCHANGED <<cc_in, fe_in, fe_out, syncVars, data_queue, history_buffer, frames,
                   co_in, co_out, port, serial_open, models_loaded, feature_columns,
                   predictor, iot_enabled, is_connected, is_reading, reading_thread,
                   db_logging_enabled, db_connection, db_file, db_session_id,
                   current_data, files, second, now, rt, cv, stop_pc, resp>>

NextComfort == ClassifyComfort

SpecComfort == InitComfort /\ [][NextComfort]_vars

(***************************************************************************)
(* create_time_series_features on its own                                  *)
(***************************************************************************)
MaxRows == 22

\* the DataFrame of n readings, the cell of column c in row r (if r > 0) NULL
DataFrame(n, r, c) ==
    [i \in 1..n |->
        LET row == recent_dict(insert_row(CompleteReading(i, 0, NoEmotions), 1))
        IN  IF i = r THEN [row EXCEPT ![c] = None] ELSE row]

InitFeatures ==
    /\ InitNoComfort
    /\ \E n \in 0..MaxRows, r \in 0..MaxRows, c \in {"temperature", "sound", "occupancy"} :
           /\ r <= n
           /\ r = 0 => c = "temperature"
           /\ fe_in = DataFrame(n, r, c)
    /\ fe_out = <<>>
    /\ models_loaded = TRUE
    /\ feature_columns = TrainedColumns
    /\ predictor = NoPredictor
    /\ InitReader(TRUE)
    /\ InitOthers

CreateTimeSeriesFeatures ==
    /\ fe_out = <<>>
    /\ fe_out' = <<create_time_series_features(fe_in, forecast_features,
                                               complementing_features, windows)>>
    /\ UNCHANGED <<cc_in, cc_out, fe_in, syncVars, data_queue, history_buffer, frames,
                   co_in, co_out, port, serial_open, models_loaded, feature_columns,
                   predictor, iot_enabled, is_connected, is_reading, reading_thread,
                   db_logging_enabled, db_connection, db_file, db_session_id,
                   current_data, files, second, now, rt, cv, stop_pc, resp>>

NextFeatures == CreateTimeSeriesFeatures

SpecFeatures == InitFeatures /\ [][NextFeatures]_vars

(***************************************************************************)
(* The forecast and alert handlers over a session that has logged k rows   *)
(***************************************************************************)
MaxHistory == 31

HistorySizes == {0, 1, 19, 20, MaxHistory}

\* sensor_data after k complete readings of session 1
History(k, occupancy, emotion_counts) ==
    [i \in 1..k |-> insert_row(CompleteReading(i, occupancy, emotion_counts), 1)]

\* What update_cv_data stored while the session logged: nobody seen, one
\* happy face, one sad face, a sad face counted and nobody detected
CvProfiles ==
    {[occupancy |-> 0, emotion_counts |-> NoEmotions],
     [occupancy |-> 1, emotion_counts |-> [NoEmotions EXCEPT !["happy"] = 1]],
     [occupancy |-> 1, emotion_counts |-> [NoEmotions EXCEPT !["sad"] = 1]],
     [occupancy |-> 0, emotion_counts |-> [NoEmotions EXCEPT !["sad"] = 1]]}

\* the four pickle files of static/model
Artifacts ==
    {"gb_model_with_complementing.pkl", "rf_model_with_complementing.pkl",
     "gb_scaler.pkl", "feature_columns.pkl"}

\* load_ml_models: models_loaded, given the files that open and unpickle; the
\* first one that does not raises, which the except clause answers with False
load_ml_models(loadable) == Artifacts \subseteq loadable

InitForecast ==
    /\ InitNoComfort
    /\ InitNoFeatures
    /\ \E loadable \in SUBSET Artifacts : models_loaded = load_ml_models(loadable)
    /\ feature_columns \in {TrainedColumns,
                            TrainedColumns \cup {Column("temperature", "roll_mean", 30)}}
    /\ iot_enabled \in BOOLEAN
    /\ is_connected = iot_enabled
    /\ is_reading = iot_enabled
    /\ reading_thread = IF iot_enabled THEN 1 ELSE 0
    /\ rt = [t \in Threads |->
                IF iot_enabled /\ t = 1 THEN [DeadThread EXCEPT !.pc = "loop"]
                ELSE DeadThread]
    /\ db_logging_enabled \in {b \in BOOLEAN : b => iot_enabled}
    /\ db_connection = IF db_logging_enabled THEN 1 ELSE None
    /\ db_file = db_connection
    /\ db_session_id = db_connection
    /\ \E k \in HistorySizes, p \in CvProfiles :
           /\ k > 0 => iot_enabled
           /\ files = [f \in Seconds |->
                          IF f = 1 THEN History(k, p.occupancy, p.emotion_counts)
                          ELSE <<>>]
           /\ now = 5 * k + 1
           /\ current_data =
                  IF k = 0 THEN InitCurrentData
                  ELSE Del(CompleteReading(k, p.occupancy, p.emotion_counts),
                           required_sensors)
           /\ predictor \in
                  IF /\ models_loaded
                     /\ db_logging_enabled
                     /\ feature_columns = TrainedColumns
                     /\ k >= 20
                  THEN {Confident(c) @@ [NoPredictor EXCEPT !.future_values = fv] :
                            fv \in IF k = 20 THEN FutureValues
                                   ELSE {NoPredictor.future_values},
                            c \in ComfortClasses}
                       \cup {[NoPredictor EXCEPT !.fails = TRUE],
                             [NoPredictor EXCEPT !.n_features_in = @ - 1]}
                  ELSE {NoPredictor}
    /\ second = 1
    /\ cv = IdleCv
    /\ stop_pc = "idle"
    /\ resp = NoResp
    /\ InitOthers

NextForecast ==
    \/ get_forecast_prediction
    \/ check_alerts

SpecForecast == InitForecast /\ [][NextForecast]_vars

(***************************************************************************)
(* The two handlers over the answers of a forest trained on any classes    *)
(***************************************************************************)
\* classes_ is np.unique of the training labels: the ascending sequence of a
\* non-empty set of the levels classify_comfort returns
ClassLists ==
    {cl \in UNION {[1..n -> ComfortClasses] : n \in 1..4} :
        \A i \in 1..(Len(cl) - 1) : cl[i] < cl[i + 1]}

\* Shares of the trees' votes, in ten-thousandths (none of them half-way
\* between two tenths of a percent, where round() follows the float's bits)
ProbaGrid == {0, 1250, 2500, 3333, 3334, 5000, 6667, 7500, 10000}

RECURSIVE SumSeq(_)
SumSeq(v) == IF v = <<>> THEN 0 ELSE v[1] + SumSeq(Tail(v))

\* the rows predict_proba may return for n classes: they add up to 1.0
Probas(n) == {v \in [1..n -> ProbaGrid] : SumSeq(v) = 10000}

ClassifierOutputs ==
    {ClassifierOutput(cl, v) : <<cl, v>> \in
        UNION {{<<c, w>> : w \in Probas(Len(c))} : c \in ClassLists}}

InitClassifier ==
    /\ InitNoComfort
    /\ InitNoFeatures
    /\ models_loaded = TRUE
    /\ feature_columns = TrainedColumns
    /\ iot_enabled = TRUE
    /\ is_connected = TRUE
    /\ is_reading = TRUE
    /\ reading_thread = 1
    /\ rt = [t \in Threads |->
                IF t = 1 THEN [DeadThread EXCEPT !.pc = "loop"] ELSE DeadThread]
    /\ db_logging_enabled = TRUE
    /\ db_connection = 1
    /\ db_file = 1
    /\ db_session_id = 1
    /\ files = [f \in Seconds |->
                   IF f = 1 THEN History(20, 1, [NoEmotions EXCEPT !["happy"] = 1])
                   ELSE <<>>]
    /\ now = 101
    /\ current_data = Del(CompleteReading(20, 1, [NoEmotions EXCEPT !["happy"] = 1]),
                          required_sensors)
    /\ predictor \in {c @@ NoPredictor : c \in ClassifierOutputs}
    /\ second = 1
    /\ cv = IdleCv
    /\ stop_pc = "idle"
    /\ resp = NoResp
    /\ InitOthers

SpecClassifier == InitClassifier /\ [][NextForecast]_vars

(***************************************************************************)
(* Two read_sensors threads: join(timeout=2) of stop_db_logging may return *)
(* while the old thread is inside an iteration, and the start_reading of   *)
(* the next start_db_logging then starts a second thread                   *)
(***************************************************************************)
InitThreads == InitSession(TRUE)

NextThreads ==
    \/ \E t \in Threads : read_sensors(t, MaxRaceLines, 0)
    \/ start_db_logging(Threads) /\ UNCHANGED syncVars
    \/ stop_db_logging("idle") /\ UNCHANGED syncVars
    \/ stop_db_logging_joined(TRUE)
    \/ stop_db_logging_return

SpecThreads == InitThreads /\ [][NextThreads]_vars

(***************************************************************************)
(* The reader thread, the CV sync thread and a handler reading             *)
(* current_data, none of which takes a lock                                *)
(***************************************************************************)
NextCv ==
    \/ read_sensors(1, MaxRaceLines, 0)
    \/ start_db_logging({1}) /\ UNCHANGED syncVars
    \/ stop_db_logging("idle") /\ UNCHANGED syncVars
    \/ stop_db_logging_joined(FALSE)
    \/ stop_db_logging_return
    \/ cv_data_sync_worker
    \/ update_cv_data
    \/ get_current_data

SpecCv == InitThreads /\ [][NextCv]_vars

(***************************************************************************)
(* Properties of classify_comfort                                          *)
(***************************************************************************)
\* The band score of a value in tenths (0, 5 or 10): full marks inside
\* [lo1, hi1], half marks inside [lo2, hi2]
Band(v, lo1, hi1, lo2, hi2) ==
    IF v \in lo1..hi1 THEN 10 ELSE IF v \in lo2..hi2 THEN 5 ELSE 0

BandTotal ==
    Band(cc_in.temperature, 2200, 2400, 2100, 2500)
    + Band(cc_in.humidity, 3000, 5000, 2500, 5500)
    + Band(cc_in.gas, 0, 79999, 80000, 99999)
    + Band(cc_in.light, 15000, 25000, 10000, 30000)
    + Band(cc_in.sound, 3500, 6000, 0, 7000)

\* C1: classify_comfort returns the level that the sum of the five band
\* scores maps to (>= 4.5: 3, >= 3: 2, >= 1.5: 1, else 0), always one of 0..3
C1_LevelIsMappedBandTotal ==
    cc_out # <<>> =>
        /\ cc_out[1] \in 0..3
        /\ cc_out[1] = 3 <=> BandTotal >= 45
        /\ cc_out[1] = 2 <=> BandTotal >= 30 /\ BandTotal < 45
        /\ cc_out[1] = 1 <=> BandTotal >= 15 /\ BandTotal < 30
        /\ cc_out[1] = 0 <=> BandTotal < 15

\* a call whose total is exactly 3.0 has returned 2
C1_Witness ==
    /\ cc_out = <<2>>
    /\ BandTotal = 30

\* The scores, in tenths, that the band boundaries are stated to have
BoundaryScore ==
    [temperature |-> (2200 :> 10) @@ (2400 :> 10) @@ (2100 :> 5) @@ (2500 :> 5),
     humidity |-> (3000 :> 10) @@ (5000 :> 10) @@ (2500 :> 5) @@ (5500 :> 5),
     light |-> (15000 :> 10) @@ (25000 :> 10) @@ (10000 :> 5) @@ (30000 :> 5),
     sound |-> (3500 :> 10) @@ (6000 :> 10) @@ (7000 :> 5),
     gas |-> (79900 :> 10) @@ (80000 :> 5) @@ (99900 :> 5) @@ (100000 :> 0)]

AtBoundaries == \A s \in Sensors : cc_in[s] \in DOMAIN BoundaryScore[s]

BoundaryTotal ==
    BoundaryScore.temperature[cc_in.temperature]
    + BoundaryScore.humidity[cc_in.humidity]
    + BoundaryScore.light[cc_in.light]
    + BoundaryScore.sound[cc_in.sound]
    + BoundaryScore.gas[cc_in.gas]

CallOf(temperature, humidity, gas, light, sound) ==
    cc_in = [temperature |-> temperature, humidity |-> humidity, gas |-> gas,
             light |-> light, sound |-> sound]

\* C2: at the stated band boundaries the scores are the stated ones (the
\* inclusive ends score 1.0, the outer ends 0.5, gas 799 / 800 / 999 / 1000
\* score 1.0 / 0.5 / 0.5 / 0), and the three stated calls return 3, 1 and 0
C2_BoundariesExact ==
    cc_out # <<>> =>
        /\ AtBoundaries =>
               cc_out[1] = (IF BoundaryTotal >= 45 THEN 3
                            ELSE IF BoundaryTotal >= 30 THEN 2
                            ELSE IF BoundaryTotal >= 15 THEN 1 ELSE 0)
        /\ CallOf(2200, 3000, 79900, 15000, 3500) => cc_out = <<3>>
        /\ CallOf(2100, 2500, 99900, 10000, 7000) => cc_out = <<1>>
        /\ CallOf(1800, 2000, 200000, 5000, 10000) => cc_out = <<0>>

\* the call with gas at 800 and everything else on an inclusive end of its
\* full band has returned 3 (total 4.5)
C2_Witness ==
    /\ CallOf(2400, 5000, 80000, 25000, 6000)
    /\ cc_out = <<3>>

(***************************************************************************)
(* Properties of create_time_series_features                               *)
(***************************************************************************)
CompleteRows == \A i \in 1..Len(fe_in) : \A c \in DfColumns : fe_in[i][c] # None

\* C3 as stated: with L = 20, exactly L complete rows give no output row and
\* L + 1 complete rows give at least one
C3_AsStated ==
    fe_out # <<>> /\ CompleteRows =>
        /\ Len(fe_in) = 20 => Len(fe_out[1].index) = 0
        /\ Len(fe_in) = 21 => Len(fe_out[1].index) >= 1

\* C3, amended: the rows dropna() drops are the first 10, 10 being the
\* largest shift()/diff() offset (the rolling windows, min_periods = 1, give
\* no NaN): n complete rows give n - 10 output rows, none up to 10 rows and
\* at least one from 11 rows on
C3_LargestLagDecides ==
    fe_out # <<>> /\ CompleteRows =>
        /\ Len(fe_in) <= 10 => Len(fe_out[1].index) = 0
        /\ Len(fe_in) > 10 =>
               fe_out[1].index = [i \in 1..(Len(fe_in) - 10) |-> i + 10]

\* 20 complete rows have gone in and 10 rows have come out
C3_Witness ==
    /\ fe_out # <<>>
    /\ CompleteRows
    /\ Len(fe_in) = 20
    /\ Len(fe_out[1].index) = 10

(***************************************************************************)
(* Properties of the forecast and alert handlers                           *)
(***************************************************************************)
\* the number of readings of the current logging session (0 without one)
SessionRows ==
    IF db_logging_enabled /\ db_connection # None
    THEN Cardinality({i \in 1..Len(files[db_connection]) :
                         files[db_connection][i].session_id = db_session_id})
    ELSE 0

FeatureMismatch ==
    /\ models_loaded
    /\ iot_enabled
    /\ SessionRows >= 20
    /\ ~ (feature_columns \subseteq TrainedColumns \cup DfColumns)

\* C6: on a feature mismatch the forecast handler and the alert check both
\* end in an explicit error (success = false) with no scaler or model called
C6_MismatchIsError ==
    resp.op \in {"forecast", "alerts"} /\ FeatureMismatch =>
        /\ resp.calls = <<>>
        /\ resp.body.success = FALSE

Messages(recs, msgs) == {i \in DOMAIN recs : recs[i].message \in msgs}

\* the number of entries of recs whose message is one of msgs equals n
Has(recs, msgs, n) == Cardinality(Messages(recs, msgs)) = n

\* C7: the recommendation list of a forecast is never empty; it holds one
\* entry per rule that fired (temperature, gas, humidity, light, engagement,
\* at most one each), then the uncomfortable-conditions alert iff the level
\* is <= 1, and nothing else; "All conditions optimal" is there iff none of
\* these fired, and is then the only entry
C7_Recommendations ==
    resp.op = "forecast" /\ resp.body.success =>
        LET recs == resp.body.recommendations
            fv == predictor.future_values
            cur == resp.body.current
            hot == fv.temperature > 2400
            cold == fv.temperature < 2200
            gas == fv.gas > 80000
            dry == fv.humidity < 3000
            humid == fv.humidity > 5000
            dark == fv.light < 15000
            bright == fv.light > 25000
            bored == cur.low_engagement > cur.high_engagement
            alert == predictor.comfort_prediction <= 1
            N(b) == IF b THEN 1 ELSE 0
        IN  /\ Len(recs) >= 1
            /\ Has(recs, {"Temperature rising - Consider cooling"}, N(hot))
            /\ Has(recs, {"Temperature dropping - Reduce cooling"}, N(cold))
            /\ Has(recs, {"CO2 levels high - Ventilation needed"}, N(gas))
            /\ Has(recs, {"Low humidity - Consider humidifier"}, N(dry))
            /\ Has(recs, {"High humidity - Ventilation needed"}, N(humid))
            /\ Has(recs, {"Low light - Increase lighting"}, N(dark))
            /\ Has(recs, {"Bright lighting - Consider dimming"}, N(bright))
            /\ Has(recs, {"Low student engagement detected"}, N(bored))
            /\ Has(recs, {"ALERT: Uncomfortable conditions predicted"}, N(alert))
            /\ alert => recs[Len(recs)].message =
                            "ALERT: Uncomfortable conditions predicted"
            /\ Has(recs, {"All conditions optimal"},
                   N(~ (hot \/ cold \/ gas \/ dry \/ humid \/ dark \/ bright
                        \/ bored \/ alert)))
            /\ Len(recs) = N(hot) + N(cold) + N(gas) + N(dry) + N(humid) + N(dark)
                           + N(bright) + N(bored) + N(alert)
                           + N(~ (hot \/ cold \/ gas \/ dry \/ humid \/ dark
                                  \/ bright \/ bored \/ alert))

\* a forecast whose only recommendation is "All conditions optimal"
C7_Witness ==
    /\ resp.op = "forecast"
    /\ resp.body.success
    /\ resp.body.recommendations =
           <<[type |-> "success", message |-> "All conditions optimal"]>>

(***************************************************************************)
(* Properties of the reading buffer (sensor_data) and of current_data      *)
(***************************************************************************)
\* the values round(value, 1) of sensor s that a row can hold
Received(s) == {Round1(v) : v \in Readings[s]}

\* C5: every row of sensor_data holds, for each of the five sensors, a value
\* that was received from the sensor: none is NULL, none is made up
C5_OnlyCompleteReadings ==
    \A f \in Seconds : \A i \in 1..Len(files[f]) :
        /\ files[f][i].temperature \in Received("temperature")
        /\ files[f][i].humidity \in Received("humidity")
        /\ files[f][i].light \in Received("light")
        /\ files[f][i].sound \in Readings.sound
        /\ files[f][i].gas \in Readings.gas

\* C8: in a snapshot of current_data, the normalized value of every sensor
\* whose raw value is there is the normalization of that raw value
C8_SnapshotAtomic ==
    resp.op = "current" =>
        \A s \in Sensors :
            RawKey[s] \in DOMAIN resp.data /\ resp.data[RawKey[s]] # None =>
                resp.data[s] = normalize_value(s, resp.data[RawKey[s]])

\* C9: no step removes or changes a row of sensor_data, and within a logging
\* session the session's row count does not decrease
C9_AppendOnly ==
    [][/\ \A f \in Seconds :
              /\ Len(files'[f]) >= Len(files[f])
              /\ SubSeq(files'[f], 1, Len(files[f])) = files[f]
       /\ (db_logging_enabled /\ db_logging_enabled' /\ db_session_id' = db_session_id)
              => /\ db_file' = db_file
                 /\ count_rows(files'[db_file], db_session_id)
                        >= count_rows(files[db_file], db_session_id)]_vars

\* a CSV export has returned both rows of a session of two readings
C9_Witness ==
    /\ resp.op = "export"
    /\ resp.success
    /\ resp.record_count = 2
    /\ SessionRows = 2

\* the rows of the current session, in the order of insertion
SessionTable ==
    IF db_logging_enabled /\ db_connection # None
    THEN SelectSeq(files[db_connection],
                   LAMBDA row : row.session_id = db_session_id)
    ELSE <<>>

\* C10: get_recent_data(limit) returns min(limit, k) readings of the k of the
\* current session: the latest ones, the oldest of them first
C10_RecentData ==
    resp.op = "recent" =>
        LET k == Len(SessionTable)
            n == Min(resp.limit, k)
        IN  /\ Len(resp.data) = n
            /\ \A i \in 1..n :
                   /\ resp.data[i].timestamp = SessionTable[k - n + i].timestamp
                   /\ resp.data[i].temperature = SessionTable[k - n + i].temperature
            /\ \A i \in 1..(n - 1) :
                   resp.data[i].timestamp < resp.data[i + 1].timestamp
            /\ \A j \in 1..(k - n) : \A i \in 1..n :
                   SessionTable[j].timestamp < resp.data[i].timestamp

\* get_recent_data(1) has returned the later of two readings
C10_Witness ==
    /\ resp.op = "recent"
    /\ resp.limit = 1
    /\ Len(SessionTable) = 2
    /\ Len(resp.data) = 1
    /\ resp.data[1].timestamp = SessionTable[2].timestamp

(***************************************************************************)
(* Properties of the classifier's part of the forecast                     *)
(***************************************************************************)
\* a forecast that reached the classifier
Forecast == resp.op = "forecast" /\ resp.status = 200 /\ resp.body.success

\* the share predict_proba gives the predicted class, times 100
PredictedShare ==
    LET at == {i \in 1..Len(predictor.actual_classes) :
                  predictor.actual_classes[i] = resp.body.comfort.level_code}
    IN  predictor.comfort_proba[CHOOSE i \in at : TRUE] * 100

\* C11 as stated: the reported confidence is the probability of the predicted
\* class, found at the position of the predicted class in the class list, and
\* equals the probability-map entry of the predicted level's label.
C11_AsStated ==
    Forecast =>
        /\ resp.body.comfort.confidence = PredictedShare
        /\ resp.body.comfort.confidence =
               resp.body.comfort.probabilities[resp.body.comfort.level]

\* C11: the reported confidence is the probability of the predicted class in
\* percent, found at the position of the predicted class in the class list,
\* rounded to one decimal; for any class list it is the probability-map entry
\* of the predicted level's label rounded to one decimal (the map's entries
\* are not rounded).
C11_ConfidenceIsRoundedShare ==
    Forecast =>
        /\ resp.body.comfort.level \in DOMAIN resp.body.comfort.probabilities
        /\ resp.body.comfort.probabilities[resp.body.comfort.level] = PredictedShare
        /\ resp.body.comfort.confidence = RoundDiv(PredictedShare, 1000) * 1000
        /\ resp.body.comfort.confidence - PredictedShare \in -500..500

\* a forest without a Critical class predicts Poor with a third of the votes
C11_Witness ==
    /\ Forecast
    /\ predictor.actual_classes = <<1, 2, 3>>
    /\ resp.body.comfort.level = "Poor"
    /\ resp.body.comfort.probabilities["Poor"] = 333400
    /\ resp.body.comfort.confidence = 333000

RECURSIVE SumOver(_)
SumOver(f) ==
    IF DOMAIN f = {} THEN 0
    ELSE LET k == CHOOSE x \in DOMAIN f : TRUE
         IN  f[k] + SumOver([x \in DOMAIN f \ {k} |-> f[x]])

\* the labels of the classes the model declares
DeclaredLabels ==
    {comfort_labels_map[cls + 1] : cls \in Range(predictor.actual_classes)}

Alerts ==
    /\ resp.op = "alerts"
    /\ resp.body.success
    /\ resp.calls # <<>>

\* the entries of a sequence of records whose field has one of the values
Entries(recs, field, values) == {i \in DOMAIN recs : recs[i][field] \in values}

\* C13: in the recommendation list of a forecast, a predicted gas value above
\* 1000 gives one gas entry of severity alert, a value in (800, 1000] gives
\* one gas entry of severity warning instead, and a value of 800 or less
\* gives no gas entry.
C13_GasTiers ==
    Forecast =>
        LET recs == resp.body.recommendations
            gas == predictor.future_values.gas
            entries == Entries(recs, "message", {"CO2 levels high - Ventilation needed"})
        IN  /\ gas > 100000 =>
                /\ Cardinality(entries) = 1
                /\ \A i \in entries : recs[i].type = "alert"
            /\ gas > 80000 /\ gas <= 100000 =>
                /\ Cardinality(entries) = 1
                /\ \A i \in entries : recs[i].type = "warning"
            /\ gas <= 80000 => entries = {}

\* C14: a feature-column list that does not have the scaler's input width is
\* a fault of load time: once the models are loaded, no forecast or alert
\* request ends in the scaler refusing the stored columns.
C14_FaultsAtLoad ==
    resp.op \in {"forecast", "alerts"} /\ models_loaded =>
        ~ (/\ resp.calls = <<"gb_scaler.transform">>
           /\ transform_raises(feature_columns, predictor.n_features_in))

\* C15: with models_loaded false the forecast handler answers 'ML models not
\* loaded' and the alert check answers an empty alert list, whatever the
\* buffer holds and with no scaler or model called, and classify_comfort
\* returns a level for every row of the buffer and for readings at the ends
\* of the sensors' ranges.
C15_DegradedMode ==
    ~ models_loaded =>
        /\ resp.op = "forecast" =>
               resp = [op |-> "forecast", status |-> 503, calls |-> <<>>,
                       body |-> [success |-> FALSE, error |-> "ML models not loaded"]]
        /\ resp.op = "alerts" =>
               /\ resp.status = 200
               /\ resp.calls = <<>>
               /\ resp.body = [success |-> TRUE, alerts |-> <<>>,
                               message |-> "System not ready for alerts"]
        /\ \A f \in Seconds : \A i \in 1..Len(files[f]) :
               classify_comfort(files[f][i].temperature, files[f][i].humidity,
                                files[f][i].gas, files[f][i].light,
                                files[f][i].sound) \in ComfortClasses
        /\ \A t \in {1500, 3500}, h \in {3000, 7000}, g \in {0, 409500},
              l \in {0, 100000}, n \in {0, 409500} :
               classify_comfort(t, h, g, l, n) \in ComfortClasses

\* the alert check has answered with the models not loaded and 31 rows logged
C15_Witness ==
    /\ ~ models_loaded
    /\ resp.op = "alerts"
    /\ resp.body.alerts = <<>>
    /\ SessionRows = MaxHistory
    /\ classify_comfort(files[1][1].temperature, files[1][1].humidity,
                        files[1][1].gas, files[1][1].light, files[1][1].sound)
           \in ComfortClasses

\* C16: the alert check gives exactly one comfort alert for level 0 (type
\* error, priority high), exactly one for level 1 (type warning, priority
\* medium) and none for levels 2 and 3; the forecast's recommendations hold
\* the uncomfortable-conditions alert iff the level is <= 1.
C16_ComfortAlert ==
    /\ Alerts =>
           LET alerts == resp.body.alerts
               comfort == Entries(alerts, "id", {"comfort_critical", "comfort_poor"})
               level == predictor.comfort_prediction
           IN  /\ level = 0 =>
                   /\ Cardinality(comfort) = 1
                   /\ \A i \in comfort :
                          alerts[i].type = "error" /\ alerts[i].priority = "high"
               /\ level = 1 =>
                   /\ Cardinality(comfort) = 1
                   /\ \A i \in comfort :
                          alerts[i].type = "warning" /\ alerts[i].priority = "medium"
               /\ level \in {2, 3} => comfort = {}
    /\ Forecast =>
           (Entries(resp.body.recommendations, "message",
                    {"ALERT: Uncomfortable conditions predicted"}) # {}
               <=> resp.body.comfort.level_code <= 1)

\* the alert check has given the one comfort alert of a Poor prediction
C16_Witness ==
    /\ Alerts
    /\ predictor.comfort_prediction = 1
    /\ \E i \in DOMAIN resp.body.alerts :
           resp.body.alerts[i] =
               [id |-> "comfort_poor", type |-> "warning", priority |-> "medium"]

\* the latest reading of the session
CurrentRow == recent_dict(SessionTable[Len(SessionTable)])

\* C17: the forecast's recommendations and the alert check hold a
\* low-engagement warning exactly when the current reading has
\* low_engagement > high_engagement, whatever its other values.
C17_LowEngagementWarns ==
    /\ Forecast =>
           (Entries(resp.body.recommendations, "message",
                    {"Low student engagement detected"}) # {}
               <=> CurrentRow.low_engagement > CurrentRow.high_engagement)
    /\ Alerts =>
           (Entries(resp.body.alerts, "id", {"engagement_low"}) # {}
               <=> CurrentRow.low_engagement > CurrentRow.high_engagement)

\* C18: the forecast's recommendations hold 'Temperature rising' iff the
\* predicted temperature is above 24 and 'Temperature dropping' iff it is
\* below 22: none of the two at 22, at 24 and in between, and never both.
C18_TemperatureThresholds ==
    Forecast =>
        LET recs == resp.body.recommendations
            temperature == predictor.future_values.temperature
            rising == Entries(recs, "message", {"Temperature rising - Consider cooling"})
            dropping == Entries(recs, "message", {"Temperature dropping - Reduce cooling"})
        IN  /\ rising # {} <=> temperature > 2400
            /\ dropping # {} <=> temperature < 2200
            /\ temperature \in 2200..2400 => rising = {} /\ dropping = {}
            /\ rising = {} \/ dropping = {}
            /\ Cardinality(rising) + Cardinality(dropping) <= 1

\* a forecast of exactly 24 degrees has been answered without a temperature entry
C18_Witness ==
    /\ Forecast
    /\ predictor.future_values.temperature = 2400
    /\ \A i \in DOMAIN resp.body.recommendations :
           resp.body.recommendations[i].message \notin
               {"Temperature rising - Consider cooling",
                "Temperature dropping - Reduce cooling"}

C20_SessionCount ==
    /\ resp.op = "start" /\ resp.success =>
           count_rows(files[db_connection], db_session_id) = 0
    /\ resp.op = "status" /\ ~ db_logging_enabled =>
           resp = [op |-> "status", enabled |-> FALSE, db_file |-> None,
                   session_id |-> None, record_count |-> 0]

(***************************************************************************)
(* app.py: get_iot_history, the reader of data_queue.  Of an entry the     *)
(* model leaves out sound_dba and gas_ppm, which are functions of its      *)
(* sound and gas.                                                          *)
(***************************************************************************)
MaxQueueLines == 7

\* round(None, 1) raises a TypeError
history_entry_raises(d) ==
    \E k \in {"raw_temperature", "raw_humidity", "raw_light", "environmental_score"} :
        Get(d, k, 0) = None

history_entry(d) ==
    [k \in {"timestamp", "temperature", "humidity", "light", "sound", "gas",
            "environmental_score", "occupancy"} \cup EmotionKeys |->
        IF k = "timestamp" THEN d["timestamp"]
        ELSE IF k \in {"temperature", "humidity", "light"}
             THEN Round1(Get(d, RawKey[k], 0))
        ELSE IF k \in {"sound", "gas"} THEN Get(d, RawKey[k], 0)
        ELSE IF k = "environmental_score" THEN Round1(Get(d, k, 0))
        ELSE Get(d, k, 0)]

\* while not data_queue.empty() and len(history_data) < limit:
\*     data = data_queue.get_nowait(); ... history_data.append({...})
\* inside try: ... except: pass
RECURSIVE drain_queue(_, _, _)
drain_queue(queue, limit, history_data) ==
    IF queue = <<>> \/ Len(history_data) >= limit
    THEN [queue |-> queue, history_data |-> history_data]
    ELSE IF Head(queue)["timestamp"] = None
    THEN drain_queue(Tail(queue), limit, history_data)
    ELSE IF history_entry_raises(Head(queue))
    THEN [queue |-> Tail(queue), history_data |-> history_data]
    ELSE drain_queue(Tail(queue), limit, Append(history_data, history_entry(Head(queue))))

\* history_data[-limit:], which is the whole list for limit = 0
LastItems(history_data, limit) ==
    IF limit = 0 \/ Len(history_data) <= limit THEN history_data
    ELSE SubSeq(history_data, Len(history_data) - limit + 1, Len(history_data))

\* the handler's answer and what it leaves of the queue
iot_history(queue, data, limit) ==
    LET drained == drain_queue(queue, limit, <<>>)
        fallback == drained.history_data = <<>> /\ data["timestamp"] # None
        history_data == IF fallback THEN <<history_entry(data)>>
                        ELSE drained.history_data
    IN  IF fallback /\ history_entry_raises(data)
        THEN [queue |-> drained.queue, status |-> 500, success |-> FALSE,
              data |-> <<>>, count |-> 0]
        ELSE [queue |-> drained.queue, status |-> 200, success |-> TRUE,
              data |-> LastItems(history_data, limit),
              count |-> Len(history_data)]

\* GET /api/iot/history?limit=...
get_iot_history ==
    /\ \E limit \in 0..MaxLimit :
           IF ~ iot_enabled
           THEN /\ resp' = [op |-> "history", limit |-> limit, status |-> 200,
                            success |-> FALSE, data |-> <<>>, count |-> 0]
                /\ UNCHANGED data_queue
           ELSE LET r == iot_history(data_queue, current_data, limit)
                IN  /\ resp' = [op |-> "history", limit |-> limit,
                                status |-> r.status, success |-> r.success,
                                data |-> r.data, count |-> r.count]
                    /\ data_queue' = r.queue
    /\ UNCHANGED <<appVars, is_connected, is_reading, reading_thread,
                   db_logging_enabled, db_connection, db_file, db_session_id,
                   current_data, files, second, now, rt, cv, stop_pc>>

\* the reader thread, the logging session and the history endpoint
NextQueue ==
    \/ read_sensors(1, MaxQueueLines, MaxQueueLines)
    \/ start_db_logging({1}) /\ UNCHANGED syncVars
    \/ stop_db_logging("idle") /\ UNCHANGED syncVars
    \/ stop_db_logging_joined(FALSE)
    \/ stop_db_logging_return
    \/ get_iot_history

SpecQueue == Init /\ [][NextQueue]_vars

(***************************************************************************)
(* app.py: the /api/iot/start-logging and /api/iot/stop-logging handlers   *)
(* with the CV sync worker they start and stop.  cv_data_sync_thread is    *)
(* "none" (None), "dead" (ended) or the place of the worker in its loop:   *)
(* "loop" (at while cv_data_sync_running), "test" (at the if), "sync"      *)
(* (about to call update_cv_data), "update" (in it), "sleep".              *)
(***************************************************************************)
MaxSyncLines == 5

\* cv_data_sync_thread and cv_data_sync_thread.is_alive()
is_alive == cv_data_sync_thread \notin {"none", "dead"}

\* start_cv_data_sync()
start_cv_data_sync ==
    IF is_alive
    THEN UNCHANGED syncVars
    ELSE /\ cv_data_sync_running' = TRUE
         /\ cv_data_sync_thread' = "loop"

\* stop_cv_data_sync() up to cv_data_sync_thread.join(timeout=2)
stop_cv_data_sync ==
    /\ cv_data_sync_running' = FALSE
    /\ UNCHANGED cv_data_sync_thread

start_iot_logging ==
    /\ IF ~ iot_enabled \/ ~ is_connected
       THEN /\ resp' = [op |-> "start", success |-> FALSE,
                        message |-> "IoT sensors not connected"]
            /\ UNCHANGED <<libVars, syncVars, data_queue, is_connected,
                           is_reading, reading_thread, db_logging_enabled,
                           db_connection, db_file, db_session_id, current_data,
                           files, second, now, rt, cv, stop_pc>>
       ELSE /\ start_db_logging({1})
            /\ IF resp'.success THEN start_cv_data_sync ELSE UNCHANGED syncVars

\* stop_iot_logging up to the join of stop_cv_data_sync
stop_iot_logging ==
    /\ stop_pc = "idle"
    /\ IF ~ iot_enabled
       THEN /\ resp' = [op |-> "stop", success |-> FALSE,
                        message |-> "IoT sensor not initialized"]
            /\ UNCHANGED <<syncVars, stop_pc>>
       ELSE /\ stop_cv_data_sync
            /\ stop_pc' = "cv_join"
            /\ resp' = NoResp
    /\ UNCHANGED <<libVars, data_queue, is_connected, is_reading,
                   reading_thread, db_logging_enabled, db_connection, db_file,
                   db_session_id, current_data, files, second, now, rt, cv>>

\* the join(timeout=2) returns: the worker has ended or, sleeping its ten
\* seconds, it has not; result = iot_sensor.stop_db_logging()
stop_iot_logging_joined ==
    /\ ~ is_alive \/ cv_data_sync_thread = "sleep"
    /\ stop_db_logging("cv_join")
    /\ UNCHANGED syncVars

WorkerVarsUnchanged ==
    UNCHANGED <<libVars, cv_data_sync_running, data_queue, is_connected,
                is_reading, reading_thread, db_logging_enabled, db_connection,
                db_file, db_session_id, current_data, files, second, now, rt,
                stop_pc>>

\* while cv_data_sync_running:
WorkerLoop ==
    /\ cv_data_sync_thread = "loop"
    /\ cv_data_sync_thread' = IF cv_data_sync_running THEN "test" ELSE "dead"
    /\ resp' = NoResp
    /\ UNCHANGED cv
    /\ WorkerVarsUnchanged

\* if iot_enabled and iot_sensor and iot_sensor.db_logging_enabled:
WorkerTest ==
    /\ cv_data_sync_thread = "test"
    /\ cv_data_sync_thread' = IF iot_enabled /\ db_logging_enabled THEN "sync"
                              ELSE "sleep"
    /\ resp' = NoResp
    /\ UNCHANGED cv
    /\ WorkerVarsUnchanged

\* occupancy = ...; emotion_counts = ...; iot_sensor.update_cv_data(...)
WorkerSync ==
    /\ cv_data_sync_thread = "sync"
    /\ cv.pc = 0
    /\ \E occupancy \in 1..MaxCount :
           cv' = [pc |-> 1, occupancy |-> occupancy,
                  emotion_counts |-> [NoEmotions EXCEPT !.happy = occupancy]]
    /\ cv_data_sync_thread' = "update"
    /\ resp' = NoResp
    /\ WorkerVarsUnchanged

\* update_cv_data has returned: time.sleep(10)
WorkerSleep ==
    /\ cv_data_sync_thread = "update"
    /\ cv.pc = 0
    /\ cv_data_sync_thread' = "sleep"
    /\ resp' = NoResp
    /\ UNCHANGED cv
    /\ WorkerVarsUnchanged

\* the ten seconds are over
WorkerWake ==
    /\ cv_data_sync_thread = "sleep"
    /\ cv_data_sync_thread' = "loop"
    /\ resp' = NoResp
    /\ UNCHANGED cv
    /\ WorkerVarsUnchanged

NextSync ==
    \/ read_sensors(1, MaxSyncLines, 0)
    \/ start_iot_logging
    \/ stop_iot_logging
    \/ stop_iot_logging_joined
    \/ stop_db_logging_joined(FALSE)
    \/ stop_db_logging_return
    \/ WorkerLoop
    \/ WorkerTest
    \/ WorkerSync
    \/ update_cv_data
    \/ WorkerSleep
    \/ WorkerWake

SpecSync == Init /\ [][NextSync]_vars

(***************************************************************************)
(* camera_system/ml_models.py: LSTMPredictor.update_history.  An           *)
(* observation is the dictionary of one frame; the model keeps the number  *)
(* of the frame it was made from.                                          *)
(***************************************************************************)
sequence_length == 30

MaxUpdates == 130

\* s[-n:] of a list, n > 0
LastOf(s, n) == IF Len(s) <= n THEN s ELSE SubSeq(s, Len(s) - n + 1, Len(s))

update_history_oldest(buffer, observation) ==
    LET appended == Append(buffer, observation)
    IN  IF Len(appended) > sequence_length * 2
        THEN SubSeq(appended, 1, sequence_length)
        ELSE appended

\* self.history_buffer.append(observation); if len(...) > sequence_length * 2:
\* self.history_buffer = self.history_buffer[-self.sequence_length:]
update_history(buffer, observation) ==
    LET appended == Append(buffer, observation)
    IN  IF Len(appended) > sequence_length * 2
        THEN LastOf(appended, sequence_length)
        ELSE appended

UpdateHistory ==
    /\ frames < MaxUpdates
    /\ frames' = frames + 1
    /\ history_buffer' = update_history(history_buffer, [frame |-> frames + 1])
    /\ UNCHANGED <<cc_in, cc_out, fe_in, fe_out, models_loaded, feature_columns,
                   predictor, iot_enabled, co_in, co_out, port, serial_open,
                   syncVars, data_queue, is_connected, is_reading,
                   reading_thread, db_logging_enabled, db_connection, db_file,
                   db_session_id, current_data, files, second, now, rt, cv,
                   stop_pc, resp>>

InitLstm ==
    /\ InitNoComfort
    /\ InitNoFeatures
    /\ models_loaded = FALSE
    /\ feature_columns = TrainedColumns
    /\ predictor = NoPredictor
    /\ InitReader(FALSE)
    /\ InitOthers

NextLstm == UpdateHistory

SpecLstm == InitLstm /\ [][NextLstm]_vars

(***************************************************************************)
(* IoTSensorReader.connect.  What the serial ports answer is an input: the *)
(* port the auto-detection finds (NoPort: none) and, per attempt, whether  *)
(* serial.Serial() opens the port or which exception it raises.            *)
(***************************************************************************)
MaxRetries == 3

Outcomes == {"open", "PermissionError", "in use", "SerialException", "Exception"}

\* for attempt in range(max_retries): ...; return False
RECURSIVE connect_attempts(_, _, _, _)
connect_attempts(self, max_retries, outcomes, attempt) ==
    IF attempt >= max_retries
    THEN [self EXCEPT !.ret = FALSE]
    ELSE LET closed == [self EXCEPT !.serial_open = FALSE, !.attempts = attempt + 1]
         IN  IF outcomes[attempt + 1] = "open"
             THEN [closed EXCEPT !.serial_open = TRUE, !.is_connected = TRUE,
                                 !.ret = TRUE]
             ELSE IF outcomes[attempt + 1] = "SerialException"
             THEN [closed EXCEPT !.is_connected = FALSE, !.ret = FALSE]
             ELSE IF attempt < max_retries - 1
             THEN connect_attempts(closed, max_retries, outcomes, attempt + 1)
             ELSE [closed EXCEPT !.is_connected = FALSE, !.ret = FALSE]

\* connect(port, max_retries) on the reader self
connect(self, port_arg, max_retries, detected, outcomes) ==
    IF /\ self.is_connected /\ self.serial_open
       /\ (port_arg = NoPort \/ port_arg = self.port)
    THEN [self EXCEPT !.ret = TRUE]
    ELSE LET named == IF port_arg # NoPort THEN [self EXCEPT !.port = port_arg]
                      ELSE self
             found == IF named.port = NoPort THEN [named EXCEPT !.port = detected]
                      ELSE named
         IN  IF found.port = NoPort
             THEN [found EXCEPT !.ret = FALSE]
             ELSE connect_attempts(found, max_retries, outcomes, 0)

Connect ==
    /\ co_out = <<>>
    /\ LET self == [is_connected |-> is_connected, serial_open |-> serial_open,
                    port |-> port, ret |-> FALSE, attempts |-> 0]
           r == connect(self, co_in.port, co_in.max_retries, co_in.detected,
                        co_in.outcomes)
       IN  /\ is_connected' = r.is_connected
           /\ serial_open' = r.serial_open
           /\ port' = r.port
           /\ co_out' = <<[ret |-> r.ret, attempts |-> r.attempts]>>
    /\ UNCHANGED <<cc_in, cc_out, fe_in, fe_out, models_loaded, feature_columns,
                   predictor, iot_enabled, history_buffer, frames, co_in,
                   syncVars, data_queue, is_reading, reading_thread,
                   db_logging_enabled, db_connection, db_file, db_session_id,
                   current_data, files, second, now, rt, cv, stop_pc, resp>>

\* a reader that is connected (to a port, its serial connection open) or not
\* (after __init__, a failed connect or disconnect), and a connect call
InitConnect ==
    /\ InitNoComfort
    /\ InitNoFeatures
    /\ models_loaded = FALSE
    /\ feature_columns = TrainedColumns
    /\ predictor = NoPredictor
    /\ \E enabled \in BOOLEAN : InitReader(enabled)
    /\ InitNoHistory
    /\ InitNoSync
    /\ data_queue = <<>>
    /\ serial_open = is_connected
    /\ port \in IF is_connected THEN Ports ELSE Ports \cup {NoPort}
    /\ co_in \in [port : Ports \cup {NoPort}, max_retries : 0..MaxRetries,
                   detected : {NoPort, "COM3"},
                   outcomes : [1..MaxRetries -> Outcomes]]
    /\ co_out = <<>>

NextConnect == Connect

SpecConnect == InitConnect /\ [][NextConnect]_vars

(***************************************************************************)
(* C21: start_db_logging succeeds only when the sensor is connected and no *)
(* logging session is active; when it is refused (a session is active, or  *)
(* the sensor is not connected) it returns success = false and leaves      *)
(* db_logging_enabled, db_file, db_session_id, the database connection and *)
(* the reading thread as they were; stop_db_logging without an active      *)
(* session returns success = false and changes nothing either.             *)
(***************************************************************************)
C21_RefusedCallsChangeNothing ==
    [][/\ (resp'.op = "start" /\ resp'.success)
           => (is_connected /\ ~ db_logging_enabled /\ db_logging_enabled')
       /\ (resp'.op = "start" /\ (db_logging_enabled \/ ~ is_connected))
           => /\ ~ resp'.success
              /\ UNCHANGED <<db_logging_enabled, db_file, db_session_id,
                             db_connection, reading_thread, is_reading, rt,
                             current_data, files>>
       /\ (resp'.op = "stop" /\ ~ db_logging_enabled)
           => /\ ~ resp'.success
              /\ UNCHANGED <<db_logging_enabled, db_file, db_session_id,
                             db_connection, reading_thread, is_reading, rt,
                             current_data, files>>]_vars

\* a start was refused while a session with rows was running
C21_Witness ==
    /\ resp.op = "start"
    /\ ~ resp.success
    /\ db_logging_enabled
    /\ db_file # None
    /\ files[db_file] # <<>>

(***************************************************************************)
(* C22: no reading is logged twice: between two consecutive inserted rows  *)
(* every one of the five sensors has been parsed at least once.  The clock *)
(* of the model advances by one per sensor line and the lines come in the  *)
(* cyclic order of the five sensors, so two rows whose timestamps are less *)
(* than five apart have a sensor that was not parsed in between: its value *)
(* is in both rows.                                                        *)
(***************************************************************************)
C22_NoReadingLoggedTwice ==
    \A f \in Seconds : \A i \in 1..Len(files[f]) - 1 :
        files[f][i + 1].timestamp - files[f][i].timestamp >= Len(LineOrder)

(***************************************************************************)
(* C24: at any time at most one read_sensors thread is running, also when  *)
(* the bounded join of a stop returns before the old thread has observed   *)
(* is_reading = False and a start follows.                                 *)
(***************************************************************************)
C24_OneReaderThread ==
    Cardinality({t \in Threads : rt[t].pc # "dead"}) <= 1

(***************************************************************************)
(* C25: the five keys raw_temperature, raw_humidity, raw_light, raw_sound  *)
(* and raw_gas are in current_data in every state, so that                 *)
(* calculate_environmental_score, which indexes them, never raises a       *)
(* KeyError, neither in the reader thread nor in a request handler.        *)
(***************************************************************************)
C25_RawKeysPresent ==
    /\ required_sensors \subseteq DOMAIN current_data
    /\ ~ env_score_raises(current_data)

(***************************************************************************)
(* C27: whenever db_logging_enabled is true, db_file and db_session_id are *)
(* set and db_connection is an open connection, in every state the reader  *)
(* thread or a concurrent request handler can observe, the intermediate    *)
(* states of start_db_logging and stop_db_logging included.                *)
(***************************************************************************)
C27_EnabledImpliesOpen ==
    db_logging_enabled =>
        /\ db_file # None
        /\ db_session_id # None
        /\ db_connection # None

(***************************************************************************)
(* C28: in a successful forecast response every returned delta is the      *)
(* returned predicted value minus the returned current value of the same   *)
(* signal, for gas and sound (returned as integers) as for the others.     *)
(***************************************************************************)
C28_DeltasAreDifferences ==
    Forecast =>
        LET predicted == resp.body.predicted
            current == resp.body.current
        IN  /\ predicted.delta_temperature
                   = predicted.temperature - current.temperature
            /\ predicted.delta_humidity = predicted.humidity - current.humidity
            /\ predicted.delta_light = predicted.light - current.light
            /\ predicted.delta_gas = predicted.gas - current.gas
            /\ predicted.delta_sound = predicted.sound - current.sound

(***************************************************************************)
(* C30: after any sequence of update_history calls the buffer holds at     *)
(* most 2 * sequence_length (60) observations, in the order they were      *)
(* added, the last one being the observation added most recently.          *)
(***************************************************************************)
C30_HistoryBuffer ==
    /\ Len(history_buffer) <= 60
    /\ \A i \in 1..(Len(history_buffer) - 1) :
           history_buffer[i].frame < history_buffer[i + 1].frame
    /\ frames > 0 =>
           /\ history_buffer # <<>>
           /\ history_buffer[Len(history_buffer)].frame = frames

\* the 61st observation has just been added: the buffer was cut to the
\* latest 30
C30_Witness ==
    /\ frames = 61
    /\ Len(history_buffer) = 30
    /\ history_buffer[1].frame = 32

C29_HistoryNotConsumed ==
    [][(/\ resp.op = "history" /\ resp'.op = "history"
        /\ resp'.limit = resp.limit) =>
           resp'.data = resp.data]_vars

(***************************************************************************)
(* C26: whenever the most recent logging call was a successful             *)
(* start-logging (a session is active and no stop is under way), a CV sync *)
(* worker is running with cv_data_sync_running = True, also when the start *)
(* follows a stop whose join did not wait for the old worker.              *)
(***************************************************************************)
C26_SyncRunsWhileLogging ==
    (db_logging_enabled /\ stop_pc = "idle") =>
        (cv_data_sync_running /\ is_alive)

====
